---- MODULE Spec2Model ----
(***************************************************************************)
(* Lead-generation pipeline: the Stage-1 orchestrator (run_pipeline.py),   *)
(* the Google-Maps scraper process (googlemaps_search.py), the Stage-1     *)
(* filter (google_filter.py), the Stage-2 directory matcher                *)
(* (bbb_bus_parallel.py) and the final filter (filtering_for_bbb.py).      *)
(*                                                                         *)
(* Files on disk are variables.  A JSON list is a sequence of records.     *)
(* The decimal text of a ZIP (str(zip_code), the stem of "<zip>.json") is  *)
(* the sequence of its digits, so that filename order is the order         *)
(* sorted(os.listdir()) gives and not the numeric one.                     *)
(* ZIP codes are positive integers.  File-system failures (a write that    *)
(* raises, a corrupt file) are outside the model.                          *)
(***************************************************************************)
EXTENDS Integers, Sequences, FiniteSets, TLC

VARIABLES
    args,           \* run_pipeline.py argv: [state_abbr, start_zip, end_zip]
    nworkers,       \* run_pipeline.py `workers`
    opc,            \* position of the orchestrator in main()
    candidate_zips, \* run_pipeline.py `candidate_zips`
    zip_slices,     \* run_pipeline.py `zip_slices`
    procs,          \* scraper processes: index -> process record
    tracker,        \* final/scrapped_zips.json: abbreviation -> entry
    by_zip,         \* raw/by_zip/<zip>.json: zip -> list of records
    google_search,  \* raw/google_search.json
    google_filter,  \* raw/google_filter.json
    bbb_parallel,   \* raw/bbb_match_parallel.json
    bbb_match,      \* raw/bbb_match.json
    final_leads,    \* final/final_leads.json
    task_queue,     \* bbb_bus_parallel.py `task_queue`
    inflight,       \* entries taken from the queue and not yet appended
    results,        \* bbb_bus_parallel.py `results`
    threads,        \* bbb_bus_parallel.py `threads`: how many still run, and
                    \* the entries taken by a thread that ended before task_done()
    hist,           \* history of Stage 2: browser sessions opened, the last
                    \* lookup and its outcome, how often each name was looked up
    runs,           \* number of program invocations so far
    pages           \* the result pages the map provider can show

vars == <<args, nworkers, opc, candidate_zips, zip_slices, procs, tracker,
          by_zip, google_search, google_filter, bbb_parallel, bbb_match,
          final_leads, task_queue, inflight, results, threads, hist, runs, pages>>

orchVars  == <<args, nworkers, opc, candidate_zips, zip_slices>>
stage1Files == <<by_zip, google_search>>
stage2Files == <<google_filter, bbb_parallel, bbb_match, final_leads>>
bbbVars   == <<task_queue, inflight, results, threads, hist>>

----------------------------------------------------------------------------
(* Bounds of the model *)

MaxSpan == 12        \* longest requested ZIP range of the partition inputs, minus one
MaxWorkers == 11     \* largest worker count of the partition inputs
MaxFeed == 1         \* most listings one results page shows
MaxRuns == 2         \* pipeline invocations in one behaviour
MaxScraperRuns == 2  \* stand-alone scraper invocations in one behaviour
MaxCanon == 2        \* longest prior google_search.json of the merge inputs
MaxWindow == 5       \* number of ZIPs in the window of the tracked requests
MaxInput == 3        \* longest google_filter.json of the Stage-2 inputs
MaxBBBRuns == 2      \* Stage-2 runs in one behaviour

----------------------------------------------------------------------------
(* Generic helpers *)

Min(a, b) == IF a <= b THEN a ELSE b
Max(a, b) == IF a >= b THEN a ELSE b

\* list(range(a, b + 1))
RangeList(a, b) == [i \in 1..Max(0, b - a + 1) |-> a + i - 1]

\* the concatenation of a sequence of sequences, in order
RECURSIVE Flatten(_)
Flatten(ss) == IF ss = <<>> THEN <<>> ELSE Head(ss) \o Flatten(Tail(ss))

SeqToSet(s) == {s[i] : i \in 1..Len(s)}

\* lst[:n]
Take(s, n) == SubSeq(s, 1, Min(n, Len(s)))

----------------------------------------------------------------------------
(* run_pipeline.py: candidate ZIPs and partition *)

workers == 10

\* str.upper() on the state abbreviations of the model
Upper(s) == CASE s = "ga" -> "GA"
              [] s = "tx" -> "TX"
              [] OTHER    -> s

\* the first GA band closed one ZIP too late
in_ga_wide(zip_code) ==
    (30000 <= zip_code /\ zip_code <= 32000) \/ (39800 <= zip_code /\ zip_code <= 39999)

in_ga(zip_code) ==
    (30000 <= zip_code /\ zip_code <= 31999) \/ (39800 <= zip_code /\ zip_code <= 39999)

\* lines 47-50 without the in_ga filter
CandidateZipsUnfiltered(state_abbr, start_zip, end_zip) == RangeList(start_zip, end_zip)

CandidateZips(state_abbr, start_zip, end_zip) ==
    IF Upper(state_abbr) = "GA"
    THEN SelectSeq(RangeList(start_zip, end_zip), in_ga)
    ELSE RangeList(start_zip, end_zip)

\* per_worker rounded down instead of up
PerWorkerFloor(n, w) == Max(1, n \div w)

\* per_worker one too large when the division is exact
PerWorkerPlusOne(n, w) == (n \div w) + 1

PerWorker(n, w) == Max(1, (n + w - 1) \div w)

\* slices that each run one ZIP into the next slice
ZipSlicesOverlapping(cz, w) ==
    LET n  == Len(cz)
        pw == PerWorker(n, w)
        k  == (n + pw - 1) \div pw
    IN  [j \in 1..k |-> SubSeq(cz, (j - 1) * pw + 1, Min(j * pw + 1, n))]

\* [candidate_zips[i:i + per_worker] for i in range(0, len(candidate_zips), per_worker)]
ZipSlices(cz, w) ==
    LET n  == Len(cz)
        pw == PerWorker(n, w)
        k  == (n + pw - 1) \div pw
    IN  [j \in 1..k |-> SubSeq(cz, (j - 1) * pw + 1, Min(j * pw, n))]

----------------------------------------------------------------------------
(* Decimal text of integers: str(), json.dumps() and int() on ZIP codes *)

RECURSIVE Str(_)
Str(n) == IF n < 10 THEN <<n>> ELSE Append(Str(n \div 10), n % 10)

RECURSIVE ParseInt(_)
ParseInt(d) == IF Len(d) = 0 THEN 0
               ELSE 10 * ParseInt(SubSeq(d, 1, Len(d) - 1)) + d[Len(d)]

\* json.dumps(zip_slice): the decimal text of every element, in order
JsonDumpsZips(zs) == [i \in 1..Len(zs) |-> Str(zs[i])]

\* [int(z) for z in json.loads(zip_list_env)]
ParseZipList(txt) == [i \in 1..Len(txt) |-> ParseInt(txt[i])]

\* min(zip_slice), max(zip_slice) of a non-empty list
MinOf(zs) == CHOOSE m \in SeqToSet(zs) : \A x \in SeqToSet(zs) : m <= x
MaxOf(zs) == CHOOSE m \in SeqToSet(zs) : \A x \in SeqToSet(zs) : m >= x

\* order of two strings of digits followed by ".json": "." sorts before every
\* digit, so a proper prefix comes first
RECURSIVE LexLess(_, _)
LexLess(a, b) ==
    IF a = <<>> THEN b # <<>>
    ELSE IF b = <<>> THEN FALSE
    ELSE IF Head(a) # Head(b) THEN Head(a) < Head(b)
    ELSE LexLess(Tail(a), Tail(b))

\* the files in numeric order of their ZIPs
RECURSIVE SortedNumeric(_)
SortedNumeric(S) ==
    IF S = {} THEN <<>>
    ELSE LET m == CHOOSE x \in S : \A y \in S : x <= y
         IN  <<m>> \o SortedNumeric(S \ {m})

\* sorted(os.listdir(by_zip_dir)): the ZIPs of the files, in filename order
RECURSIVE SortedNames(_)
SortedNames(S) ==
    IF S = {} THEN <<>>
    ELSE LET m == CHOOSE x \in S : \A y \in S \ {x} : LexLess(Str(x), Str(y))
         IN  <<m>> \o SortedNames(S \ {m})

----------------------------------------------------------------------------
(* googlemaps_search.py: records, the tracker entry, one scraper process *)

NA == "N/A"

\* a tracker field holding "N/A" is <<>>, one holding the ZIP z is <<z>>
NoZip == <<>>
Zip(z) == <<z>>

get_valid_zip_ranges_for_state(state_abbr) ==
    IF Upper(state_abbr) = "GA"
    THEN <<<<30000, 31999>>, <<39800, 39999>>>>
    ELSE <<>>

\* the loop's test: not (valid_ranges and not any(rs <= zip_code <= re ...))
ValidZip(state_abbr, zip_code) ==
    LET vr == get_valid_zip_ranges_for_state(state_abbr)
    IN  vr = <<>> \/ \E k \in 1..Len(vr) : vr[k][1] <= zip_code /\ zip_code <= vr[k][2]

\* lines 335-342 resuming at the watermark itself
ActualStartZipAtWatermark(bypass, start_zip, last_zip_scraped) ==
    IF ~bypass /\ last_zip_scraped # NoZip /\ last_zip_scraped[1] >= start_zip
    THEN last_zip_scraped[1]
    ELSE start_zip

\* the start ZIP when the watermark is ignored
ActualStartZipIgnoringTracker(bypass, start_zip, last_zip_scraped) == start_zip

\* lines 334-346: the start ZIP after consulting the tracker entry
ActualStartZip(bypass, start_zip, last_zip_scraped) ==
    IF ~bypass /\ last_zip_scraped # NoZip /\ last_zip_scraped[1] >= start_zip
    THEN last_zip_scraped[1] + 1
    ELSE start_zip

\* get_all_business_names_from_by_zip: every truthy BusinessName in by_zip/*.json
NamesFromByZip(files) ==
    UNION {{files[z][i].BusinessName : i \in 1..Len(files[z])} : z \in DOMAIN files}

\* get_all_business_names(output_json)
NamesFromFile(data) == {data[i].BusinessName : i \in 1..Len(data)}

max_listings == 100

\* the loop without the test of line 236: a card without a name is kept
RECURSIVE ScrapeFeedKeepUnnamed(_, _, _, _)
ScrapeFeedKeepUnnamed(feed, data, names, cap) ==
    IF feed = <<>> \/ Len(data) >= cap THEN <<data, names>>
    ELSE LET l == Head(feed) IN
         IF l.BusinessName # NA /\ l.BusinessName \in names
         THEN ScrapeFeedKeepUnnamed(Tail(feed), data, names, cap)
         ELSE ScrapeFeedKeepUnnamed(Tail(feed), Append(data, l),
                                    names \cup {l.BusinessName}, cap)

\* scrape_google_maps_listings, lines 167-244, over the parsed feed: the pair
\* <<businesses_data, scraped_business_names>> after the loop
RECURSIVE ScrapeFeed(_, _, _, _)
ScrapeFeed(feed, data, names, cap) ==
    IF feed = <<>> \/ Len(data) >= cap THEN <<data, names>>
    ELSE LET l == Head(feed) IN
         IF l.BusinessName # NA /\ l.BusinessName \in names
         THEN ScrapeFeed(Tail(feed), data, names, cap)
         ELSE IF l.BusinessName # NA
         THEN ScrapeFeed(Tail(feed), Append(data, l), names \cup {l.BusinessName}, cap)
         ELSE ScrapeFeed(Tail(feed), data, names, cap)

\* lines 410-412: tag a listing with the industry and the ZIP's text
Tag(l, zip_code) ==
    [BusinessName |-> l.BusinessName, Website |-> l.Website,
     Industry |-> "Roofing", Location |-> Str(zip_code)]

TagAll(ls, zip_code) == [i \in 1..Len(ls) |-> Tag(ls[i], zip_code)]

\* lines 417-431 writing the new listings over the file
PerZipMergeOverwrite(existing, listings) == listings

\* lines 417-431: the per-ZIP file after merging the listings into it
PerZipMerge(existing, listings) ==
    LET names_seen == {existing[i].BusinessName : i \in 1..Len(existing)}
        keep(item) == item.BusinessName \notin names_seen
    IN  existing \o SelectSeq(listings, keep)

\* the process googlemaps_search.py started with argv (state_abbr, start_zip,
\* end_zip) and the environment (GGL_TRACKER_BYPASS, GGL_OUTPUT_BY_ZIP_DIR,
\* GGL_ZIP_LIST); line 499 upper-cases the state.  searched, processed and
\* watermark0 are history: the ZIPs searched, the ZIPs whose iteration reached
\* line 458, and last_zip_scraped as it was at launch; load_failed holds the
\* ZIPs whose results page did not load.
NewProc(state_abbr, start_zip, end_zip, bypass, out_by_zip, has_list, zip_list) ==
    [state_abbr |-> Upper(state_abbr), start_zip |-> start_zip, end_zip |-> end_zip,
     bypass_tracker |-> bypass, output_by_zip |-> out_by_zip,
     has_zip_list |-> has_list, zip_list_env |-> zip_list,
     pc |-> "start", rc |-> 0,
     actual_start_zip |-> start_zip, highest_processed_zip |-> start_zip - 1,
     iterable_zips |-> <<>>, i |-> 1, scraped_business_names |-> {},
     searched |-> <<>>, processed |-> <<>>, load_failed |-> {}, unnamed_seen |-> FALSE,
     interrupted |-> FALSE,
     watermark0 |-> NoZip, tracker_data |-> <<>>]

Running(p) == p \in DOMAIN procs /\ procs[p].pc # "exited"

\* lines 319-332: the tracker has no entry for the state: log and return
ScraperNoState(p) ==
    /\ p \in DOMAIN procs /\ procs[p].pc = "start"
    /\ ~procs[p].bypass_tracker
    /\ procs[p].state_abbr \notin DOMAIN tracker
    /\ procs' = [procs EXCEPT ![p].pc = "exited", ![p].rc = 0]
    /\ UNCHANGED <<orchVars, tracker, stage1Files, stage2Files, bbbVars, runs, pages>>

\* last_zip_scraped of the state's entry as read at launch ("N/A" in bypass
\* mode, where the tracker is not read)
LastScraped(pr) ==
    IF pr.bypass_tracker THEN NoZip ELSE tracker[pr.state_abbr].last_zip_scraped

StartZipOf(pr) == ActualStartZip(pr.bypass_tracker, pr.start_zip, LastScraped(pr))

\* lines 348-351: already past the end ZIP: return before any browser is opened
ScraperPastEnd(p) ==
    /\ p \in DOMAIN procs /\ procs[p].pc = "start"
    /\ procs[p].bypass_tracker \/ procs[p].state_abbr \in DOMAIN tracker
    /\ StartZipOf(procs[p]) > procs[p].end_zip
    /\ procs' = [procs EXCEPT ![p].pc = "exited", ![p].rc = 0,
                              ![p].actual_start_zip = StartZipOf(procs[p]),
                              ![p].watermark0 = LastScraped(procs[p])]
    /\ UNCHANGED <<orchVars, tracker, stage1Files, stage2Files, bbbVars, runs, pages>>

\* lines 361-393: open the browser, load the names already scraped, enter the
\* try block and build the list of ZIPs to visit.  web_driver() raising ends
\* the process with a traceback (status 1); driver.get() raising is caught at
\* line 462.
ScraperStart(p) ==
    /\ p \in DOMAIN procs /\ procs[p].pc = "start"
    /\ procs[p].bypass_tracker \/ procs[p].state_abbr \in DOMAIN tracker
    /\ StartZipOf(procs[p]) <= procs[p].end_zip
    /\ \E boot \in {"ok", "no_driver", "get_raises"} :
         LET pr     == procs[p]
             actual == StartZipOf(pr)
             names  == IF pr.output_by_zip THEN NamesFromByZip(by_zip)
                       ELSE NamesFromFile(google_search)
             zips   == IF pr.has_zip_list THEN ParseZipList(pr.zip_list_env)
                       ELSE RangeList(actual, pr.end_zip)
             base   == [pr EXCEPT !.actual_start_zip = actual,
                                  !.highest_processed_zip = actual - 1,
                                  !.watermark0 = LastScraped(pr),
                                  !.tracker_data = IF pr.bypass_tracker THEN <<>>
                                                   ELSE tracker]
         IN  procs' = [procs EXCEPT ![p] =
                 CASE boot = "no_driver"  -> [base EXCEPT !.pc = "exited", !.rc = 1]
                   [] boot = "get_raises" -> [base EXCEPT !.pc = "finally",
                                                          !.scraped_business_names = names,
                                                          !.interrupted = TRUE]
                   [] OTHER -> [base EXCEPT !.pc = IF zips = <<>> THEN "finally" ELSE "loop",
                                            !.scraped_business_names = names,
                                            !.iterable_zips = zips]]
    /\ UNCHANGED <<orchVars, tracker, stage1Files, stage2Files, bbbVars, runs, pages>>

\* after iteration i of the for loop: the next iteration, or the finally block
Advance(pr) ==
    [pr EXCEPT !.i = pr.i + 1,
               !.pc = IF pr.i + 1 > Len(pr.iterable_zips) THEN "finally" ELSE "loop"]

\* lines 394-397: a ZIP outside the state's valid ranges is skipped
ScraperSkipZip(p) ==
    /\ p \in DOMAIN procs /\ procs[p].pc = "loop"
    /\ ~ValidZip(procs[p].state_abbr, procs[p].iterable_zips[procs[p].i])
    /\ procs' = [procs EXCEPT ![p] = Advance(procs[p])]
    /\ UNCHANGED <<orchVars, tracker, stage1Files, stage2Files, bbbVars, runs, pages>>

\* what a results page can show: a listing is the name and website read from
\* one card; BusinessName is "N/A" when the card has no name tag
Listings ==
    {[BusinessName |-> "A", Website |-> NA], [BusinessName |-> "B", Website |-> "w"],
     [BusinessName |-> NA, Website |-> NA]}

Feeds == UNION {[1..n -> Listings] : n \in 0..MaxFeed}

\* lines 408-455: the output files after one ZIP's listings were handled
WriteByZip(files, zip_code, listings) ==
    LET existing == IF zip_code \in DOMAIN files THEN files[zip_code] ELSE <<>>
        merged   == PerZipMerge(existing, TagAll(listings, zip_code))
    IN  IF listings = <<>> \/ merged = existing THEN files
        ELSE [z \in DOMAIN files \cup {zip_code} |->
                 IF z = zip_code THEN merged ELSE files[z]]

WriteLegacy(all_results, zip_code, listings) ==
    all_results \o TagAll(listings, zip_code)

\* one iteration of the for loop for a valid ZIP, lines 398-460, with the
\* results page showing `feed`; done says whether line 458 was reached,
\* loaded whether the results feed came up
SearchZip(p, feed, done, loaded) ==
    LET pr  == procs[p]
        z   == pr.iterable_zips[pr.i]
        out == ScrapeFeed(feed, <<>>, pr.scraped_business_names, max_listings)
        pr1 == [pr EXCEPT !.scraped_business_names = out[2],
                          !.searched = Append(pr.searched, z),
                          !.load_failed = IF loaded THEN pr.load_failed
                                          ELSE pr.load_failed \cup {z},
                          !.unnamed_seen = \/ pr.unnamed_seen
                                           \/ \E k \in 1..Len(feed) : feed[k].BusinessName = NA]
    IN  /\ IF pr.output_by_zip
           THEN /\ by_zip' = WriteByZip(by_zip, z, out[1])
                /\ UNCHANGED google_search
           ELSE /\ google_search' = WriteLegacy(google_search, z, out[1])
                /\ UNCHANGED by_zip
        /\ procs' = [procs EXCEPT ![p] =
               IF done
               THEN Advance([pr1 EXCEPT !.highest_processed_zip = z,
                                        !.processed = Append(pr.processed, z)])
               ELSE [pr1 EXCEPT !.pc = "finally", !.interrupted = TRUE]]

InLoopAtValidZip(p) ==
    /\ p \in DOMAIN procs /\ procs[p].pc = "loop"
    /\ ValidZip(procs[p].state_abbr, procs[p].iterable_zips[procs[p].i])

\* the search ran, its listings were saved and the ZIP counted as processed
ScraperSearchZip(p) ==
    /\ InLoopAtValidZip(p)
    /\ \E feed \in pages : SearchZip(p, feed, TRUE, TRUE)
    /\ UNCHANGED <<orchVars, tracker, stage2Files, bbbVars, runs, pages>>

\* lines 81-102 raising instead of returning the empty list
ScraperLoadFailAborts(p) ==
    /\ InLoopAtValidZip(p)
    /\ procs' = [procs EXCEPT ![p].pc = "finally", ![p].interrupted = TRUE,
                              ![p].load_failed = @ \cup {procs[p].iterable_zips[procs[p].i]}]
    /\ UNCHANGED <<orchVars, tracker, stage1Files, stage2Files, bbbVars, runs, pages>>

\* lines 81-102: the results feed did not load: scrape_google_maps_listings
\* returns no listings and the loop goes on
ScraperLoadFail(p) ==
    /\ InLoopAtValidZip(p)
    /\ SearchZip(p, <<>>, TRUE, FALSE)
    /\ UNCHANGED <<orchVars, tracker, stage2Files, bbbVars, runs, pages>>

\* lines 462-465: an exception or KeyboardInterrupt raised in the loop body
\* before anything was written for this ZIP
ScraperRaise(p) ==
    /\ InLoopAtValidZip(p)
    /\ procs' = [procs EXCEPT ![p].pc = "finally", ![p].interrupted = TRUE]
    /\ UNCHANGED <<orchVars, tracker, stage1Files, stage2Files, bbbVars, runs, pages>>

\* the same, raised after the ZIP's listings were written and before line 458
ScraperRaiseAfterWrite(p) ==
    /\ InLoopAtValidZip(p)
    /\ \E feed \in pages : SearchZip(p, feed, FALSE, TRUE)
    /\ UNCHANGED <<orchVars, tracker, stage2Files, bbbVars, runs, pages>>

\* line 473 with a strict comparison
ShouldUpdateTrackerStrict(bypass, actual_start_zip, highest_processed_zip) ==
    ~bypass /\ highest_processed_zip > actual_start_zip

\* the tracker written whenever the bypass is off
ShouldUpdateTrackerUnguarded(bypass, actual_start_zip, highest_processed_zip) == ~bypass

\* line 473: the tracker is written only if a ZIP was processed
ShouldUpdateTracker(bypass, actual_start_zip, highest_processed_zip) ==
    ~bypass /\ highest_processed_zip >= actual_start_zip

\* the entry rewritten with first_zip_scraped overwritten on every update
TrackerUpdateResetFirst(entry, actual_start_zip, highest_processed_zip) ==
    [last_zip_scraped  |-> Zip(highest_processed_zip),
     first_zip_scraped |-> Zip(actual_start_zip)]

\* lines 475-479: the state's entry as the finally block rewrites it
TrackerUpdate(entry, actual_start_zip, highest_processed_zip) ==
    [last_zip_scraped  |-> Zip(highest_processed_zip),
     first_zip_scraped |-> IF entry.first_zip_scraped = NoZip
                           THEN Zip(actual_start_zip)
                           ELSE entry.first_zip_scraped]

\* lines 466-490 followed by a non-zero exit when the except clause ran
ScraperFinallyFailing(p) ==
    /\ p \in DOMAIN procs /\ procs[p].pc = "finally"
    /\ UNCHANGED tracker
    /\ procs' = [procs EXCEPT ![p].pc = "exited",
                              ![p].rc = IF procs[p].interrupted THEN 1 ELSE 0]
    /\ UNCHANGED <<orchVars, stage1Files, stage2Files, bbbVars, runs, pages>>

\* lines 466-490: the finally block: close the browser, write the tracker data
\* read at launch with the state's entry updated, and return (exit status 0)
ScraperFinally(p) ==
    /\ p \in DOMAIN procs /\ procs[p].pc = "finally"
    /\ LET pr == procs[p] IN
         IF ShouldUpdateTracker(pr.bypass_tracker, pr.actual_start_zip,
                                pr.highest_processed_zip)
         THEN tracker' = [pr.tracker_data EXCEPT ![pr.state_abbr] =
                             TrackerUpdate(pr.tracker_data[pr.state_abbr],
                                           pr.actual_start_zip, pr.highest_processed_zip)]
         ELSE UNCHANGED tracker
    /\ procs' = [procs EXCEPT ![p].pc = "exited", ![p].rc = 0]
    /\ UNCHANGED <<orchVars, stage1Files, stage2Files, bbbVars, runs, pages>>

----------------------------------------------------------------------------
(* run_pipeline.py: Stage 1 *)

NoProcs == [idx \in {} |-> 0]

AllExited == \A p \in DOMAIN procs : procs[p].pc = "exited"

\* lines 52-54: no candidate ZIP: "No valid ZIPs", sys.exit(0)
OrchNoZips ==
    /\ opc = "start"
    /\ CandidateZips(args.state_abbr, args.start_zip, args.end_zip) = <<>>
    /\ opc' = "exit0"
    /\ candidate_zips' = <<>>
    /\ UNCHANGED <<args, nworkers, zip_slices, procs, tracker, stage1Files,
                   stage2Files, bbbVars, runs, pages>>

\* lines 60-76: the process spawned for zip_slice: tracker bypass, the by-zip
\* directory, the slice as GGL_ZIP_LIST, argv (state, str(min), str(max))
SpawnWorker(state_abbr, zip_slice) ==
    NewProc(state_abbr, ParseInt(Str(MinOf(zip_slice))), ParseInt(Str(MaxOf(zip_slice))),
            TRUE, TRUE, TRUE, JsonDumpsZips(zip_slice))

\* lines 42-76: compute the candidates, cut them into slices and spawn one
\* worker for each of the first `workers` slices
OrchSpawn ==
    /\ opc = "start"
    /\ LET cz == CandidateZips(args.state_abbr, args.start_zip, args.end_zip)
           zs == ZipSlices(cz, nworkers)
           sp == Take(zs, nworkers)
       IN  /\ cz # <<>>
           /\ candidate_zips' = cz
           /\ zip_slices' = zs
           /\ procs' = [idx \in 0..(Len(sp) - 1) |->
                           SpawnWorker(args.state_abbr, sp[idx + 1])]
    /\ opc' = "waiting"
    /\ UNCHANGED <<args, nworkers, tracker, stage1Files, stage2Files, bbbVars, runs, pages>>

\* lines 78-86: every worker has been waited for and one of them failed
OrchWorkerFailed ==
    /\ opc = "waiting" /\ AllExited
    /\ \E p \in DOMAIN procs : procs[p].rc # 0
    /\ opc' = "failed"
    /\ UNCHANGED <<args, nworkers, candidate_zips, zip_slices, procs, tracker,
                   stage1Files, stage2Files, bbbVars, runs, pages>>

Key(item) == <<item.BusinessName, item.Location>>

\* the merge loop without the `seen` test
MergeItemsNoDedup(merged, items) == merged \o items

\* lines 97-101 and 115-119: append the items whose key was not seen yet
RECURSIVE MergeItems(_, _)
MergeItems(merged, items) ==
    IF items = <<>> THEN merged
    ELSE MergeItems(IF \E i \in 1..Len(merged) : Key(merged[i]) = Key(Head(items))
                    THEN merged ELSE Append(merged, Head(items)),
                    Tail(items))

\* for name in sorted(os.listdir(by_zip_dir)): the files' items, file after file
ByZipItems(files) ==
    LET order == SortedNames(DOMAIN files)
    IN  Flatten([k \in 1..Len(order) |-> files[order[k]]])

\* the merge without the seeding from the existing google_search.json
Stage1MergeFresh(existing, files) == MergeItems(<<>>, ByZipItems(files))

\* lines 88-126: google_search.json after the merge
Stage1Merge(existing, files) ==
    MergeItems(MergeItems(<<>>, existing), ByZipItems(files))

\* the merge run whatever the workers' exit statuses
OrchMergeIgnoringRc ==
    /\ opc = "waiting" /\ AllExited
    /\ google_search' = MergeItems(MergeItems(<<>>, google_search), ByZipItems(by_zip))
    /\ opc' = "filter"
    /\ UNCHANGED <<args, nworkers, candidate_zips, zip_slices, procs, tracker,
                   by_zip, stage2Files, bbbVars, runs, pages>>

\* the merge started without waiting for the workers
OrchMergeEarly ==
    /\ opc = "waiting"
    /\ \A p \in DOMAIN procs : procs[p].rc = 0
    /\ google_search' = MergeItems(MergeItems(<<>>, google_search), ByZipItems(by_zip))
    /\ opc' = "filter"
    /\ UNCHANGED <<args, nworkers, candidate_zips, zip_slices, procs, tracker,
                   by_zip, stage2Files, bbbVars, runs, pages>>

\* lines 78-127: every worker exited with status 0: merge the by-zip folder
OrchMerge ==
    /\ opc = "waiting" /\ AllExited
    /\ \A p \in DOMAIN procs : procs[p].rc = 0
    /\ google_search' = Stage1Merge(google_search, by_zip)
    /\ opc' = "filter"
    /\ UNCHANGED <<args, nworkers, candidate_zips, zip_slices, procs, tracker,
                   by_zip, stage2Files, bbbVars, runs, pages>>

\* google_filter.py lines 26-29 without the test of the name
filter_google_search_data_any_name(data) ==
    LET keep(entry) == entry.Website = NA
    IN  SelectSeq(data, keep)

\* google_filter.py lines 26-29
filter_google_search_data(data) ==
    LET keep(entry) == entry.BusinessName # NA /\ entry.Website = NA
    IN  SelectSeq(data, keep)

\* lines 129-133: run google_filter.py
OrchFilter ==
    /\ opc = "filter"
    /\ google_filter' = filter_google_search_data(google_search)
    /\ opc' = "bbb"
    /\ UNCHANGED <<args, nworkers, candidate_zips, zip_slices, procs, tracker,
                   stage1Files, bbb_parallel, bbb_match, final_leads, bbbVars, runs, pages>>

----------------------------------------------------------------------------
(* bbb_bus_parallel.py: Stage 2.  The worker threads are identical and keep *)
(* no state between two candidates, so they are counted, not named: an     *)
(* entry in `inflight` is held by one thread between task_queue.get() and  *)
(* results_list.append().  The names of the model carry no surrounding     *)
(* whitespace, so str.strip() leaves them as they are.                     *)

num_workers == 10

\* no thread runs
NoThreads == [alive |-> 0, lost |-> {}]

NoHistory == [sessions |-> 0, last |-> <<>>, looked_up |-> <<>>]

\* how many of the threads got a browser at line 215 (a thread whose
\* web_driver() raises ends at once): all, one, or none
BootOutcomes == {num_workers, 1, 0}

\* load_existing_business_names(*file_paths)
load_existing_business_names(files) ==
    UNION {{files[k][i].BusinessName : i \in 1..Len(files[k])} : k \in 1..Len(files)}
        \ {"", NA}

\* lines 313-321 without the look at the existing files
RECURSIVE EnqueueIgnoringExisting(_, _, _)
EnqueueIgnoringExisting(input_data, existing_names, enqueued_names) ==
    IF input_data = <<>> THEN <<>>
    ELSE LET entry == Head(input_data)
             name  == entry.BusinessName
         IN  IF name = "" \/ name = NA \/ name \in enqueued_names
             THEN EnqueueIgnoringExisting(Tail(input_data), existing_names, enqueued_names)
             ELSE <<entry>> \o EnqueueIgnoringExisting(Tail(input_data), existing_names,
                                                       enqueued_names \cup {name})

\* lines 313-321: the entries put on the queue, in input order
RECURSIVE Enqueue(_, _, _)
Enqueue(input_data, existing_names, enqueued_names) ==
    IF input_data = <<>> THEN <<>>
    ELSE LET entry == Head(input_data)
             name  == entry.BusinessName
         IN  IF name = "" \/ name = NA \/ name \in existing_names \/ name \in enqueued_names
             THEN Enqueue(Tail(input_data), existing_names, enqueued_names)
             ELSE <<entry>> \o Enqueue(Tail(input_data), existing_names,
                                       enqueued_names \cup {name})

\* lines 290-329: load the input, fill the queue, start the threads
BBBStart ==
    /\ opc = "bbb"
    /\ task_queue' = Enqueue(google_filter,
                             load_existing_business_names(<<bbb_match, bbb_parallel, final_leads>>),
                             {})
    /\ inflight' = {}
    /\ results' = <<>>
    /\ \E started \in BootOutcomes :
         /\ threads' = [alive |-> started, lost |-> {}]
         /\ hist' = [hist EXCEPT !.sessions = started, !.last = <<>>]
    /\ opc' = "bbb_running"
    /\ UNCHANGED <<args, nworkers, candidate_zips, zip_slices, procs, tracker,
                   stage1Files, stage2Files, runs, pages>>

\* line 218: a thread takes the next entry from the queue
BBBGet ==
    /\ opc = "bbb_running"
    /\ task_queue # <<>>
    /\ Cardinality(inflight) < threads.alive
    /\ inflight' = inflight \cup {Head(task_queue)}
    /\ task_queue' = Tail(task_queue)
    /\ UNCHANGED <<orchVars, procs, tracker, stage1Files, stage2Files, results,
                   threads, hist>>
    /\ UNCHANGED <<runs, pages>>

\* what scrape_bbb_listings can return: the first organic card, or nothing
Urls == {"u1", "u2"}
NoResult == [BBB_bus |-> <<>>, BBB_url |-> <<>>, BBB_phone |-> <<>>, BBB_address |-> <<>>]
LookupResults ==
    {NoResult} \cup
    {[BBB_bus |-> <<"Biz">>, BBB_url |-> <<u>>, BBB_phone |-> <<NA>>,
      BBB_address |-> <<NA>>] : u \in Urls}

\* "; ".join(xs) for a list of at most one string
Join(xs) == IF xs = <<>> THEN "" ELSE xs[1]

\* lines 246-255: the entry with the lookup's fields
WithBBB(entry, res) ==
    IF res.BBB_bus # <<>>
    THEN [BusinessName |-> entry.BusinessName, Website |-> entry.Website,
          Industry |-> entry.Industry, Location |-> entry.Location,
          BBB_bus |-> Join(res.BBB_bus), BBB_url |-> Join(res.BBB_url),
          BBB_phone |-> Join(res.BBB_phone), BBB_address |-> Join(res.BBB_address)]
    ELSE [BusinessName |-> entry.BusinessName, Website |-> entry.Website,
          Industry |-> entry.Industry, Location |-> entry.Location,
          BBB_bus |-> NA, BBB_url |-> NA, BBB_phone |-> NA, BBB_address |-> NA]

\* how a lookup can end (scrape_bbb_listings, lines 81-177, and the handler
\* at lines 236-244):
\*   "found"     the first organic card was read
\*   "none"      the page shows no organic card, or the card cannot be read
\*   "timeout"   a wait of lines 103-127 or the container lookup of line 137
\*               gave up: the empty result is returned
\*   "raised"    an exception left scrape_bbb_listings; the browser was quit
\*               and web_driver() gave a new one
\*   "no_driver" the same, and web_driver() at line 243 raised too: the
\*               exception leaves the while loop and the thread ends
Outcomes == {"found", "none", "timeout", "raised", "no_driver"}

Looked(h, entry, outcome) ==
    [h EXCEPT !.last = [name |-> entry.BusinessName, outcome |-> outcome],
              !.sessions = IF outcome = "raised" THEN h.sessions + 1 ELSE h.sessions,
              !.looked_up = [n \in DOMAIN h.looked_up \cup {entry.BusinessName} |->
                                IF n = entry.BusinessName
                                THEN (IF n \in DOMAIN h.looked_up THEN h.looked_up[n] ELSE 0) + 1
                                ELSE h.looked_up[n]]]

\* lines 224-228: an entry without a name or a location is marked done and
\* dropped without a lookup
BBBSkip ==
    /\ opc = "bbb_running"
    /\ \E entry \in inflight :
         /\ entry.BusinessName = "" \/ entry.Location = <<>>
         /\ inflight' = inflight \ {entry}
    /\ UNCHANGED <<orchVars, procs, tracker, stage1Files, stage2Files, task_queue,
                   results, threads, hist, runs, pages>>

\* lines 230-264: the lookup of one entry, the append of its result under the
\* lock, and task_done()
BBBLookup ==
    /\ opc = "bbb_running"
    /\ \E entry \in inflight :
         /\ entry.BusinessName # "" /\ entry.Location # <<>>
         /\ inflight' = inflight \ {entry}
         /\ \E outcome \in Outcomes \ {"no_driver"} :
              /\ \E res \in (IF outcome = "found" THEN LookupResults \ {NoResult}
                             ELSE {NoResult}) :
                   results' = Append(results, WithBBB(entry, res))
              /\ hist' = Looked(hist, entry, outcome)
    /\ UNCHANGED <<orchVars, procs, tracker, stage1Files, stage2Files, task_queue,
                   threads, runs, pages>>

\* lines 236-243 and 265-270: the lookup raised and so did web_driver(): the
\* thread ends with the entry neither appended nor marked done
BBBThreadDies ==
    /\ opc = "bbb_running"
    /\ \E entry \in inflight :
         /\ entry.BusinessName # "" /\ entry.Location # <<>>
         /\ inflight' = inflight \ {entry}
         /\ threads' = [alive |-> threads.alive - 1, lost |-> threads.lost \cup {entry}]
         /\ hist' = Looked(hist, entry, "no_driver")
    /\ UNCHANGED <<orchVars, procs, tracker, stage1Files, stage2Files, task_queue,
                   results, runs, pages>>

\* lines 331-348: task_queue.join() returned (every entry put was marked
\* done), the threads got their None and quit their browsers: write the
\* results if there are any
BBBFinish ==
    /\ opc = "bbb_running"
    /\ task_queue = <<>> /\ inflight = {} /\ threads.lost = {}
    /\ bbb_parallel' = IF results # <<>> THEN results ELSE bbb_parallel
    /\ opc' = "bbb_merge"
    /\ threads' = NoThreads
    /\ hist' = [hist EXCEPT !.sessions = 0, !.last = <<>>]
    /\ UNCHANGED <<args, nworkers, candidate_zips, zip_slices, procs, tracker,
                   stage1Files, google_filter, bbb_match, final_leads,
                   task_queue, inflight, results, runs, pages>>

\* run_pipeline.py lines 141-161: append bbb_match_parallel.json to bbb_match.json
OrchMergeBBB ==
    /\ opc = "bbb_merge"
    /\ bbb_match' = bbb_match \o bbb_parallel
    /\ opc' = "final"
    /\ UNCHANGED <<args, nworkers, candidate_zips, zip_slices, procs, tracker,
                   stage1Files, google_filter, bbb_parallel, final_leads, bbbVars, runs, pages>>

\* lines 48-59 without the seen_urls test
RECURSIVE MergeByUrlKeepAll(_, _)
MergeByUrlKeepAll(merged, entries) ==
    IF entries = <<>> THEN merged
    ELSE MergeByUrlKeepAll(IF Head(entries).BBB_url # ""
                           THEN Append(merged, Head(entries)) ELSE merged,
                           Tail(entries))

\* filtering_for_bbb.py lines 48-59: append the entries whose URL was not seen
RECURSIVE MergeByUrl(_, _)
MergeByUrl(merged, entries) ==
    IF entries = <<>> THEN merged
    ELSE LET bbb_url == Head(entries).BBB_url
         IN  MergeByUrl(IF bbb_url # "" /\ ~\E i \in 1..Len(merged) : merged[i].BBB_url = bbb_url
                        THEN Append(merged, Head(entries)) ELSE merged,
                        Tail(entries))

\* lines 27-59 without the test of line 28
filter_for_final_leads_unfiltered(data, existing_final) ==
    MergeByUrl(MergeByUrl(<<>>, existing_final), data)

\* filtering_for_bbb.py lines 27-59
filter_for_final_leads(data, existing_final) ==
    LET matched(entry) == entry.BBB_url # "" /\ entry.BBB_url # NA
    IN  MergeByUrl(MergeByUrl(<<>>, existing_final), SelectSeq(data, matched))

\* run_pipeline.py lines 163-170: run filtering_for_bbb.py
OrchFinal ==
    /\ opc = "final"
    /\ final_leads' = filter_for_final_leads(bbb_match, final_leads)
    /\ opc' = "done"
    /\ UNCHANGED <<args, nworkers, candidate_zips, zip_slices, procs, tracker,
                   stage1Files, google_filter, bbb_parallel, bbb_match, bbbVars, runs, pages>>

\* run_script lines 10-14: the script run by the current step (google_filter.py,
\* bbb_bus_parallel.py or filtering_for_bbb.py) ends with a non-zero return
\* code before it wrote its output: sys.exit(1)
OrchScriptFailed ==
    /\ opc \in {"filter", "bbb", "bbb_running", "final"}
    /\ opc' = "failed"
    /\ task_queue' = <<>> /\ inflight' = {} /\ results' = <<>>
    /\ threads' = NoThreads
    /\ hist' = [hist EXCEPT !.sessions = 0, !.last = <<>>]
    /\ UNCHANGED <<args, nworkers, candidate_zips, zip_slices, procs, tracker,
                   stage1Files, stage2Files, runs, pages>>

\* lines 79-81: KeyboardInterrupt raised in p.wait() is caught nowhere in
\* run_pipeline.py: the orchestrator ends with a traceback; its workers are
\* separate processes and run on until they end
OrchInterrupt ==
    /\ opc = "waiting"
    /\ opc' = "interrupted"
    /\ UNCHANGED <<args, nworkers, candidate_zips, zip_slices, procs, tracker,
                   stage1Files, stage2Files, bbbVars, runs, pages>>

----------------------------------------------------------------------------
(* Specifications *)

TrackerStates == {"GA", "TX"}

\* scrapped_zips.json as shipped: every state never scraped
FreshTracker ==
    [st \in TrackerStates |-> [last_zip_scraped |-> NoZip, first_zip_scraped |-> NoZip]]

NoFiles == [z \in {} |-> <<>>]

Request(st, a, b) == [state_abbr |-> st, start_zip |-> a, end_zip |-> b]

Idle ==
    /\ candidate_zips = <<>> /\ zip_slices = <<>> /\ procs = NoProcs
    /\ task_queue = <<>> /\ inflight = {} /\ results = <<>>
    /\ threads = NoThreads /\ hist = NoHistory

EmptyOutputs ==
    /\ by_zip = NoFiles /\ google_search = <<>> /\ google_filter = <<>>
    /\ bbb_parallel = <<>> /\ bbb_match = <<>> /\ final_leads = <<>>

(* The pipeline: run_pipeline.py invoked up to MaxRuns times, one run after  *)
(* the other, from empty outputs.                                          *)

PipelineRequests ==
    {Request("TX", 9, 10), Request("ga", 31999, 32000), Request("GA", 32000, 32001),
     Request("TX", 10, 9)}

Init ==
    /\ args \in PipelineRequests
    /\ nworkers = workers
    /\ opc = "start"
    /\ Idle /\ EmptyOutputs
    /\ tracker = FreshTracker
    /\ runs = 1
    /\ pages = Feeds

\* the operator runs the pipeline again after a run that ended, was
\* interrupted or lost a worker (a run stopped by a failing script is followed
\* up to its end only)
OrchRestart ==
    /\ \/ opc \in {"done", "exit0", "interrupted"}
       \/ opc = "failed" /\ \E p \in DOMAIN procs : procs[p].rc # 0
    /\ AllExited
    /\ runs < MaxRuns
    /\ args' \in PipelineRequests
    /\ opc' = "start"
    /\ candidate_zips' = <<>> /\ zip_slices' = <<>> /\ procs' = NoProcs
    /\ task_queue' = <<>> /\ inflight' = {} /\ results' = <<>>
    /\ threads' = NoThreads
    /\ runs' = runs + 1
    /\ UNCHANGED <<nworkers, tracker, stage1Files, stage2Files, hist, pages>>

Next ==
    \/ OrchNoZips
    \/ OrchSpawn
    \/ \E p \in DOMAIN procs : ScraperStart(p)
    \/ \E p \in DOMAIN procs : ScraperSearchZip(p)
    \/ \E p \in DOMAIN procs : ScraperLoadFail(p)
    \/ \E p \in DOMAIN procs : ScraperRaise(p)
    \/ \E p \in DOMAIN procs : ScraperRaiseAfterWrite(p)
    \/ \E p \in DOMAIN procs : ScraperFinally(p)
    \/ OrchWorkerFailed
    \/ OrchMerge
    \/ OrchFilter
    \/ BBBStart
    \/ BBBGet
    \/ BBBLookup
    \/ BBBThreadDies
    \/ BBBFinish
    \/ OrchMergeBBB
    \/ OrchFinal
    \/ OrchScriptFailed
    \/ OrchInterrupt
    \/ OrchRestart

Spec == Init /\ [][Next]_vars

(* The partitioner alone: lines 42-76 of run_pipeline.py on every request  *)
(* and worker count of the bounded input sets.                             *)

PartitionStarts == {29995, 30301, 31990, 39790, 39995}

PartitionRequests ==
    {Request(st, a, a + d - 1) : st \in {"GA", "ga", "TX"},
                                 a \in PartitionStarts,
                                 d \in 0..(MaxSpan + 1)}

InitPartition ==
    /\ args \in PartitionRequests
    /\ nworkers \in 1..MaxWorkers
    /\ opc = "start"
    /\ Idle /\ EmptyOutputs
    /\ tracker = FreshTracker
    /\ runs = 1
    /\ pages = Feeds

NextPartition == OrchNoZips \/ OrchSpawn

SpecPartition == InitPartition /\ [][NextPartition]_vars

(* The scraper alone: googlemaps_search.py invoked by hand, one run after   *)
(* the other, with every combination of the environment that the bounded   *)
(* input sets hold.                                                        *)

ZipWindow == 30301..(30300 + MaxWindow)

Invocation(st, a, b, bypass, out_by_zip, has_list, zip_list) ==
    [state_abbr |-> st, start_zip |-> a, end_zip |-> b, bypass |-> bypass,
     out_by_zip |-> out_by_zip, has_list |-> has_list, zip_list |-> zip_list]

ScraperInvocations ==
    \* tracked runs over every range of the window, legacy single-file output
    {Invocation("GA", a, b, FALSE, FALSE, FALSE, <<>>) : a \in ZipWindow, b \in ZipWindow}
    \cup
    \* tracked runs across the upper edge of the first GA band, and in a state
    \* without bands, a state the tracker does not list, and by-zip output
    {Invocation("GA", 31999, 32001, FALSE, FALSE, FALSE, <<>>),
     Invocation("GA", 31998, 32000, FALSE, TRUE, FALSE, <<>>),
     Invocation("TX", 9, 10, FALSE, TRUE, FALSE, <<>>),
     Invocation("PR", 9, 10, FALSE, FALSE, FALSE, <<>>)}
    \cup
    \* tracked runs given an explicit ZIP list
    {Invocation("GA", 30301, 30304, FALSE, TRUE, TRUE, JsonDumpsZips(zs)) :
        zs \in {<<30304, 30303>>, <<30301>>, <<>>}}
    \cup
    \* bypass runs, as a worker of the pipeline is started
    {Invocation("GA", 31999, 32000, TRUE, TRUE, TRUE, JsonDumpsZips(<<31999, 32000>>)),
     Invocation("GA", 30301, 30302, TRUE, FALSE, FALSE, <<>>)}

ScraperPages == {<<>>, <<[BusinessName |-> "A", Website |-> NA]>>,
                 <<[BusinessName |-> NA, Website |-> NA]>>}

InitScraper ==
    /\ args = Request("GA", 30301, 30301)
    /\ nworkers = workers
    /\ opc = "idle"
    /\ Idle /\ EmptyOutputs
    /\ tracker = FreshTracker
    /\ runs = 0
    /\ pages = ScraperPages

\* the operator starts googlemaps_search.py once the previous run has ended
ScraperLaunch ==
    /\ opc = "idle"
    /\ AllExited
    /\ runs < MaxScraperRuns
    /\ \E inv \in ScraperInvocations :
         procs' = [idx \in {0} |->
                      NewProc(inv.state_abbr, inv.start_zip, inv.end_zip, inv.bypass,
                              inv.out_by_zip, inv.has_list, inv.zip_list)]
    /\ runs' = runs + 1
    /\ UNCHANGED <<orchVars, tracker, stage1Files, stage2Files, bbbVars, pages>>

NextScraper ==
    \/ ScraperLaunch
    \/ \E p \in DOMAIN procs : ScraperNoState(p)
    \/ \E p \in DOMAIN procs : ScraperPastEnd(p)
    \/ \E p \in DOMAIN procs : ScraperStart(p)
    \/ \E p \in DOMAIN procs : ScraperSkipZip(p)
    \/ \E p \in DOMAIN procs : ScraperSearchZip(p)
    \/ \E p \in DOMAIN procs : ScraperLoadFail(p)
    \/ \E p \in DOMAIN procs : ScraperRaise(p)
    \/ \E p \in DOMAIN procs : ScraperRaiseAfterWrite(p)
    \/ \E p \in DOMAIN procs : ScraperFinally(p)

SpecScraper == InitScraper /\ [][NextScraper]_vars

(* The scraper alone where every results page shows the same business: the *)
(* runs of SpecScraper with the map provider listing "A" under every ZIP.   *)

SamePage == {<<[BusinessName |-> "A", Website |-> NA]>>}

InitDedup ==
    /\ args = Request("GA", 30301, 30301)
    /\ nworkers = workers
    /\ opc = "idle"
    /\ Idle /\ EmptyOutputs
    /\ tracker = FreshTracker
    /\ runs = 0
    /\ pages = SamePage

SpecDedup == InitDedup /\ [][NextScraper]_vars

(* The pipeline where every results page shows the same business: the runs *)
(* of Spec with the map provider listing "A" under every ZIP, so that the  *)
(* search results per ZIP are fixed and only the timing of the workers     *)
(* varies.                                                                 *)

InitRace ==
    /\ args \in PipelineRequests
    /\ nworkers = workers
    /\ opc = "start"
    /\ Idle /\ EmptyOutputs
    /\ tracker = FreshTracker
    /\ runs = 1
    /\ pages = SamePage

SpecRace == InitRace /\ [][Next]_vars

(* The Stage-1 merge alone: lines 88-127 of run_pipeline.py on a prior      *)
(* google_search.json and a by-zip folder drawn from bounded sets.  A file *)
(* <zip>.json holds records of that ZIP with distinct names, as the        *)
(* scraper writes them; the prior dataset is any list of records.          *)

MergeZips == {9, 10}
MergeNames == {"A", "B"}

Rec(name, web, z) ==
    [BusinessName |-> name, Website |-> web, Industry |-> "Roofing", Location |-> Str(z)]

MergeRecords == {Rec(n, w, z) : n \in MergeNames, w \in {NA, "w"}, z \in MergeZips}

PriorDatasets == UNION {[1..n -> MergeRecords] : n \in 0..MaxCanon}

PerZipFiles(z) ==
    {f \in UNION {[1..n -> {r \in MergeRecords : r.Location = Str(z)}] : n \in 1..2} :
        \A i, j \in 1..Len(f) : i # j => f[i].BusinessName # f[j].BusinessName}

ByZipFolders ==
    UNION {{f \in [S -> UNION {PerZipFiles(z) : z \in S}] :
               \A z \in S : f[z] \in PerZipFiles(z)} : S \in SUBSET MergeZips}

InitMerge ==
    /\ args = Request("TX", 9, 10)
    /\ nworkers = workers
    /\ opc = "waiting"
    /\ candidate_zips = <<9, 10>> /\ zip_slices = << <<9>>, <<10>> >>
    /\ procs = NoProcs
    /\ task_queue = <<>> /\ inflight = {} /\ results = <<>>
    /\ threads = NoThreads /\ hist = NoHistory
    /\ google_search \in PriorDatasets
    /\ by_zip \in ByZipFolders
    /\ google_filter = <<>> /\ bbb_parallel = <<>> /\ bbb_match = <<>> /\ final_leads = <<>>
    /\ tracker = FreshTracker
    /\ runs = 1
    /\ pages = Feeds

NextMerge == OrchMerge \/ OrchFilter

SpecMerge == InitMerge /\ [][NextMerge]_vars

(* The Stage-1 filter alone: google_filter.py on a google_search.json drawn *)
(* from a bounded set of lists of records, named and unnamed, with and      *)
(* without a website.                                                       *)

FilterRecords == {Rec(n, w, z) : n \in {"A", NA}, w \in {NA, "w"}, z \in MergeZips}

FilterInputs == UNION {[1..n -> FilterRecords] : n \in 0..MaxCanon}

InitFilter ==
    /\ args = Request("TX", 9, 10)
    /\ nworkers = workers
    /\ opc = "filter"
    /\ Idle
    /\ by_zip = NoFiles
    /\ google_search \in FilterInputs
    /\ google_filter = <<>> /\ bbb_parallel = <<>> /\ bbb_match = <<>> /\ final_leads = <<>>
    /\ tracker = FreshTracker
    /\ runs = 1
    /\ pages = Feeds

NextFilter == OrchFilter

SpecFilter == InitFilter /\ [][NextFilter]_vars

(* Stage 2 alone: bbb_bus_parallel.py, the merge of its output and          *)
(* filtering_for_bbb.py, run up to MaxBBBRuns times from empty Stage-2      *)
(* outputs on a google_filter.json drawn from a bounded set.  The file of a *)
(* later run extends the file of the run before it, as the additive Stage-1 *)
(* merge and the order-preserving filter make it.  The entries cover a name *)
(* listed under two ZIPs, a listing whose heading read as the empty string, *)
(* and an entry whose Location is empty.                                   *)

Cand(name, loc) ==
    [BusinessName |-> name, Website |-> NA, Industry |-> "Roofing", Location |-> loc]

Candidates ==
    {Cand("A", Str(9)), Cand("A", Str(10)), Cand("B", Str(9)), Cand("", Str(9)),
     Cand("C", <<>>)}

\* google_filter.json holds no two entries with the same name and Location
FilterOutputs ==
    {g \in UNION {[1..n -> Candidates] : n \in 0..MaxInput} :
        \A i, j \in 1..Len(g) : i # j => g[i] # g[j]}

IsPrefix(s, t) == Len(s) <= Len(t) /\ SubSeq(t, 1, Len(s)) = s

InitBBB ==
    /\ args = Request("TX", 9, 10)
    /\ nworkers = workers
    /\ opc = "bbb"
    /\ Idle
    /\ by_zip = NoFiles /\ google_search = <<>>
    /\ google_filter \in FilterOutputs
    /\ bbb_parallel = <<>> /\ bbb_match = <<>> /\ final_leads = <<>>
    /\ tracker = FreshTracker
    /\ runs = 1
    /\ pages = Feeds

\* a later pipeline run reaches Stage 2 with the google_filter.json that its
\* Stage 1 wrote
BBBRerun ==
    /\ opc = "done"
    /\ runs < MaxBBBRuns
    /\ google_filter' \in {g \in FilterOutputs : IsPrefix(google_filter, g)}
    /\ opc' = "bbb"
    /\ runs' = runs + 1
    /\ UNCHANGED <<args, nworkers, candidate_zips, zip_slices, procs, tracker,
                   stage1Files, bbb_parallel, bbb_match, final_leads, bbbVars, pages>>

NextBBB ==
    \/ BBBStart
    \/ BBBGet
    \/ BBBSkip
    \/ BBBLookup
    \/ BBBThreadDies
    \/ BBBFinish
    \/ OrchMergeBBB
    \/ OrchFinal
    \/ BBBRerun

SpecBBB == InitBBB /\ [][NextBBB]_vars

(* Stage 2 with its scheduling: the main thread and every thread that holds *)
(* an entry or finds one on the queue keep running, so each of their steps  *)
(* that stays possible is taken in the end.  How a lookup ends, and whether *)
(* the operator starts another run, is left open.                          *)

WorkerStep == BBBSkip \/ BBBLookup \/ BBBThreadDies

SpecBBBLive ==
    /\ InitBBB /\ [][NextBBB]_vars
    /\ WF_vars(BBBStart) /\ WF_vars(BBBGet) /\ WF_vars(WorkerStep)
    /\ WF_vars(BBBFinish) /\ WF_vars(OrchMergeBBB) /\ WF_vars(OrchFinal)

----------------------------------------------------------------------------
(* Claims about the partitioner, under SpecPartition *)

\* the ZIPs of a request that lie in the state's valid bands
ValidCandidates(req) ==
    {z \in req.start_zip..req.end_zip :
        Upper(req.state_abbr) = "GA" =>
            (z \in 30000..31999 \/ z \in 39800..39999)}

StrictlyAscending(zs) == \A i \in 1..(Len(zs) - 1) : zs[i] < zs[i + 1]

\* the ZIP lists handed to the spawned workers, in worker-index order
HandedSlices == [k \in 1..Cardinality(DOMAIN procs) |-> ParseZipList(procs[k - 1].zip_list_env)]

\* C1: once the workers are spawned, the ZIP lists handed to them,
\* concatenated in worker-index order, are the valid candidate ZIPs of the
\* request in ascending order: every candidate is in exactly one list and
\* none is dropped by the cut to the first `workers` slices.
C1_PartitionComplete ==
    opc = "waiting" =>
        /\ StrictlyAscending(Flatten(HandedSlices))
        /\ SeqToSet(Flatten(HandedSlices)) = ValidCandidates(args)

\* more candidates than workers, several slices, and some ZIPs of the request
\* dropped as outside the GA bands
C1_Witness ==
    /\ opc = "waiting"
    /\ Upper(args.state_abbr) = "GA"
    /\ Len(candidate_zips) > nworkers
    /\ Len(candidate_zips) < args.end_zip - args.start_zip + 1
    /\ Cardinality(DOMAIN procs) >= 2
    /\ Cardinality(DOMAIN procs) = Len(zip_slices)

\* the least c with c * w >= n
CeilDiv(n, w) == CHOOSE c \in 0..n : c * w >= n /\ (c - 1) * w < n

\* C2: every slice is non-empty, every slice but the last holds exactly
\* ceil(candidateCount / workerCount) ZIPs and the last at most that many,
\* there are at most workerCount slices, and candidates 30301..30303 with
\* 2 workers give [30301, 30302] and [30303].
C2_SliceSizes ==
    opc = "waiting" =>
        LET c == CeilDiv(Len(candidate_zips), nworkers) IN
        /\ Len(zip_slices) <= nworkers
        /\ \A j \in 1..Len(zip_slices) :
              /\ Len(zip_slices[j]) >= 1
              /\ Len(zip_slices[j]) <= c
              /\ j < Len(zip_slices) => Len(zip_slices[j]) = c
        /\ (candidate_zips = <<30301, 30302, 30303>> /\ nworkers = 2) =>
              /\ zip_slices = << <<30301, 30302>>, <<30303>> >>
              /\ HandedSlices = zip_slices

\* Scenario A, and a run whose last slice is shorter than the others
C2_Witness ==
    /\ opc = "waiting"
    /\ candidate_zips = <<30301, 30302, 30303>>
    /\ nworkers = 2
    /\ Len(zip_slices[1]) > Len(zip_slices[2])

----------------------------------------------------------------------------
(* Claims about the candidate ZIPs and the searches, under Spec *)

\* C3: the candidates of a request are exactly its ZIPs inside the state's
\* valid bands (30000..31999 and 39800..39999 for GA, every ZIP for a state
\* without bands); a request with at least one such ZIP is not ended by the
\* "no valid ZIPs" exit, whatever else it drops; and every ZIP a worker
\* searches is one of the candidates.
C3_OnlyValidZipsSearched ==
    /\ opc \notin {"start", "exit0"} => SeqToSet(candidate_zips) = ValidCandidates(args)
    /\ opc = "exit0" <=> (opc # "start" /\ ValidCandidates(args) = {})
    /\ \A p \in DOMAIN procs : SeqToSet(procs[p].searched) \subseteq ValidCandidates(args)

\* a GA request that loses a ZIP outside the bands, whose remaining ZIP was
\* searched, and that went on to the merge
C3_Witness ==
    /\ Upper(args.state_abbr) = "GA"
    /\ ValidCandidates(args) # args.start_zip..args.end_zip
    /\ opc = "filter"
    /\ \E p \in DOMAIN procs : procs[p].searched # <<>>

----------------------------------------------------------------------------
(* Claims about the Stage-1 merge, under SpecMerge *)

MergeStep == opc = "waiting" /\ opc' = "filter"

\* the files of the by-zip folder in filename order, stated directly: the
\* arrangement of the ZIPs in which every name precedes the later ones
FilenameOrder(S) ==
    CHOOSE o \in [1..Cardinality(S) -> S] :
        /\ \A z \in S : \E k \in 1..Cardinality(S) : o[k] = z
        /\ \A i, j \in 1..Cardinality(S) : i < j => LexLess(Str(o[i]), Str(o[j]))

\* what the merge reads, in reading order: the prior dataset, then each file
ReadOrder(prior, files) ==
    LET o == FilenameOrder(DOMAIN files)
    IN  prior \o Flatten([k \in 1..Len(o) |-> files[o[k]]])

\* the positions of a list that hold the first record of their identity
FirstPositions(seq) ==
    {i \in 1..Len(seq) : \A j \in 1..(i - 1) : Key(seq[j]) # Key(seq[i])}

\* out is seq restricted to the positions P, in order
IsRestriction(out, seq, P) ==
    /\ Len(out) = Cardinality(P)
    /\ \A k \in 1..Len(out) :
          out[k] = seq[CHOOSE i \in P : Cardinality({j \in P : j <= i}) = k]

NoDuplicateKeys(seq) ==
    \A i, j \in 1..Len(seq) : i # j => Key(seq[i]) # Key(seq[j])

C5_MergeIdempotent ==
    opc \in {"filter", "bbb"} => Stage1Merge(google_search, by_zip) = google_search

\* after a merge that took records from the prior dataset and from a file
C5_Witness ==
    /\ opc = "filter"
    /\ Len(google_search) >= 3
    /\ \E z \in DOMAIN by_zip : \E k \in 1..Len(by_zip[z]), m \in 1..Len(google_search) :
          google_search[m] = by_zip[z][k]
    /\ \E m \in 1..Len(google_search) :
          \A z \in DOMAIN by_zip : \A k \in 1..Len(by_zip[z]) : google_search[m] # by_zip[z][k]

\* C6: a merge keeps every identity of the prior dataset; the prior records
\* (the first of each identity) are a prefix of the new dataset, in unchanged
\* order, and what is new comes after them.
C6_MergeAdditive ==
    [][MergeStep =>
        LET kept == FirstPositions(google_search)
            n    == Cardinality(kept)
        IN  /\ \A i \in 1..Len(google_search) :
                  \E m \in 1..Len(google_search') : Key(google_search'[m]) = Key(google_search[i])
            /\ n <= Len(google_search')
            /\ IsRestriction(SubSeq(google_search', 1, n), google_search, kept)]_vars

\* after a merge: the dataset starts with a record no file holds and ends
\* with a record of a file
C6_Witness ==
    /\ opc = "filter"
    /\ Len(google_search) >= 2
    /\ \A z \in DOMAIN by_zip : \A k \in 1..Len(by_zip[z]) : google_search[1] # by_zip[z][k]
    /\ \E z \in DOMAIN by_zip : \E k \in 1..Len(by_zip[z]) :
          google_search[Len(google_search)] = by_zip[z][k]

----------------------------------------------------------------------------
(* Claims about the "N/A" name, under Spec *)

Unnamed(seq) == \E i \in 1..Len(seq) : seq[i].BusinessName = NA

----------------------------------------------------------------------------
(* Claims about the tracker, under SpecScraper *)

\* a tracked run for a state the tracker lists
Tracked(pr) == ~pr.bypass_tracker /\ pr.state_abbr \in DOMAIN tracker

\* max(start, W + 1), and start itself while the watermark is "N/A"
EffectiveStart(pr) ==
    IF pr.watermark0 = NoZip THEN pr.start_zip
    ELSE Max(pr.start_zip, pr.watermark0[1] + 1)

\* the state-valid ZIPs of [max(start, W + 1), end]
ResumeZips(pr) ==
    {z \in EffectiveStart(pr)..pr.end_zip :
        pr.state_abbr = "GA" => (z \in 30000..31999 \/ z \in 39800..39999)}

\* the run went through its whole loop: nothing was caught at line 462
RanToEnd(pr) == pr.pc = "exited" /\ pr.rc = 0 /\ ~pr.interrupted

ResumesAfterWatermark(pr) ==
    /\ pr.pc # "start" => pr.actual_start_zip = EffectiveStart(pr)
    /\ StrictlyAscending(pr.processed)
    /\ SeqToSet(pr.searched) \subseteq ResumeZips(pr)
    /\ RanToEnd(pr) => SeqToSet(pr.processed) = ResumeZips(pr)

C9_WatermarkIsHighestProcessed ==
    \A p \in DOMAIN procs :
        (Tracked(procs[p]) /\ procs[p].pc = "exited" /\ procs[p].processed # <<>>) =>
            tracker[procs[p].state_abbr].last_zip_scraped = Zip(MaxOf(procs[p].processed))

\* a tracked run given the ZIP list [30304, 30303] completed both ZIPs and
\* persisted 30303, the last one, as last_zip_scraped
C9_Witness ==
    \E p \in DOMAIN procs :
        /\ Tracked(procs[p]) /\ RanToEnd(procs[p])
        /\ procs[p].processed = <<30304, 30303>>
        /\ tracker[procs[p].state_abbr].last_zip_scraped = Zip(30303)

\* C10: last_zip_scraped never decreases, and first_zip_scraped, once it holds
\* a ZIP, never changes.
C10_TrackerMonotone ==
    [][\A st \in DOMAIN tracker :
          /\ tracker[st].last_zip_scraped # NoZip =>
                /\ tracker'[st].last_zip_scraped # NoZip
                /\ tracker'[st].last_zip_scraped[1] >= tracker[st].last_zip_scraped[1]
          /\ tracker[st].first_zip_scraped # NoZip =>
                tracker'[st].first_zip_scraped = tracker[st].first_zip_scraped]_vars

\* a second tracked run that was cut short after it moved the watermark up,
\* and whose start ZIP is not the first ZIP ever scraped
C10_Witness ==
    \E p \in DOMAIN procs :
        /\ Tracked(procs[p]) /\ procs[p].pc = "exited" /\ procs[p].interrupted
        /\ procs[p].watermark0 # NoZip
        /\ tracker[procs[p].state_abbr].last_zip_scraped[1] > procs[p].watermark0[1]
        /\ tracker[procs[p].state_abbr].first_zip_scraped # Zip(procs[p].actual_start_zip)

----------------------------------------------------------------------------
(* Claims about who writes the tracker *)

\* every worker the orchestrator spawns for a request runs in bypass mode with
\* an explicit ZIP list
WorkersLaunchedInBypass ==
    \A req \in PipelineRequests :
        LET sl == ZipSlices(CandidateZips(req.state_abbr, req.start_zip, req.end_zip),
                            workers)
        IN  \A k \in 1..Len(sl) :
                LET w == SpawnWorker(req.state_abbr, sl[k])
                IN  w.bypass_tracker /\ w.has_zip_list /\ w.output_by_zip

\* C11: the tracker file changes only in the finally block of a run that is
\* not in bypass mode and that processed at least one ZIP; a bypass run holds
\* no tracker data and no watermark (it never read the file) and never
\* changes the file; the orchestrator starts every worker in bypass mode with
\* an explicit ZIP list.
C11_OnlyTrackedRunsWriteTracker ==
    [][/\ tracker' # tracker =>
            \E p \in DOMAIN procs :
                /\ procs[p].pc = "finally" /\ procs'[p].pc = "exited"
                /\ ~procs[p].bypass_tracker
                /\ procs[p].processed # <<>>
       /\ \A p \in DOMAIN procs' :
            procs'[p].bypass_tracker =>
                procs'[p].tracker_data = <<>> /\ procs'[p].watermark0 = NoZip
       /\ WorkersLaunchedInBypass]_vars

\* a run started as the orchestrator starts a worker processed a ZIP of its list
\* and exited, and the tracker is as an earlier tracked run left it
C11_Witness ==
    /\ runs = 2
    /\ tracker # FreshTracker
    /\ \E p \in DOMAIN procs :
        /\ procs[p].bypass_tracker /\ procs[p].has_zip_list /\ procs[p].output_by_zip
        /\ procs[p].zip_list_env = SpawnWorker("GA", <<31999, 32000>>).zip_list_env
        /\ procs[p].pc = "exited"
        /\ procs[p].processed # <<>>

\* C12: in a pipeline run no worker writes the tracker, and the orchestrator
\* updates the run's tracker record once, after every worker was waited for:
\* when the first run from a fresh tracker is done, the record of the
\* requested state is no longer the fresh one.
C12_OrchestratorUpdatesTracker ==
    runs = 1 =>
        /\ opc \in {"start", "waiting"} => tracker = FreshTracker
        /\ opc = "done" =>
              tracker[Upper(args.state_abbr)] # FreshTracker[Upper(args.state_abbr)]

\* the first pipeline run is done, its workers wrote per-ZIP files, and the
\* tracker is still the fresh one
C12_Witness ==
    /\ runs = 1 /\ opc = "done"
    /\ \E z \in DOMAIN by_zip : by_zip[z] # <<>>
    /\ \A p \in DOMAIN procs : procs[p].processed # <<>>
    /\ tracker = FreshTracker

----------------------------------------------------------------------------
(* Claims about the orchestrator's sequencing *)

SomeWorkerFailed == \E p \in DOMAIN procs : procs[p].rc # 0

\* C13: once a Stage-1 worker has exited with a non-zero status the
\* orchestrator leaves its wait for "failed" only when every worker has
\* exited; no step after the failure is a merge, a filter, a Stage-2 step or
\* the final filter (google_search.json and every Stage-2 file stay as they
\* are, the orchestrator never reaches a later stage, "done" or exit 0); and
\* the failing exit leaves the per-ZIP files in place.
C13_WorkerFailureStopsPipeline ==
    [][SomeWorkerFailed =>
          /\ opc' \in {"waiting", "failed", "interrupted", "start"}
          /\ (opc = "waiting" /\ opc' = "failed") => AllExited
          /\ opc' = "start" => opc \in {"failed", "interrupted"}
          /\ google_search' = google_search
          /\ UNCHANGED stage2Files
          /\ (opc = "failed" \/ opc' = "failed") => by_zip' = by_zip]_vars

\* the orchestrator failed after two workers ended: one without a browser
\* (status 1), one that wrote a per-ZIP file and exited 0; the file is there
C13_Witness ==
    /\ opc = "failed"
    /\ \E p, q \in DOMAIN procs :
        /\ procs[p].rc = 1
        /\ procs[q].rc = 0 /\ procs[q].pc = "exited" /\ procs[q].processed # <<>>
        /\ \E z \in DOMAIN by_zip : by_zip[z] # <<>> /\ z = procs[q].processed[1]
    /\ google_search = <<>> /\ final_leads = <<>>

\* the orchestrator's steps in order; "failed" and "interrupted" end a run,
\* and "start" after an ended run is the next run
StepOrder ==
    {<<"start", "waiting">>, <<"start", "exit0">>,
     <<"waiting", "filter">>, <<"waiting", "failed">>, <<"waiting", "interrupted">>,
     <<"filter", "bbb">>, <<"filter", "failed">>,
     <<"bbb", "bbb_running">>, <<"bbb", "failed">>,
     <<"bbb_running", "bbb_merge">>, <<"bbb_running", "failed">>,
     <<"bbb_merge", "final">>,
     <<"final", "done">>, <<"final", "failed">>,
     <<"done", "start">>, <<"failed", "start">>, <<"exit0", "start">>,
     <<"interrupted", "start">>}

\* C14: the orchestrator moves only along Stage-1 workers, merge, Stage-1
\* filter, Stage-2 matching, Stage-2 merge, final filter, done; the merge
\* happens only when every worker has exited, all with status 0; each output
\* file is written by its own step and by no other; and after a step failed
\* nothing is written and nothing follows but the end of the run.
C14_StepsInOrder ==
    [][/\ opc' # opc => <<opc, opc'>> \in StepOrder
       /\ google_search' # google_search =>
            /\ opc = "waiting" /\ opc' = "filter"
            /\ AllExited /\ \A p \in DOMAIN procs : procs[p].rc = 0
       /\ opc' = "filter" => AllExited /\ ~SomeWorkerFailed
       /\ google_filter' # google_filter => opc = "filter" /\ opc' = "bbb"
       /\ bbb_parallel' # bbb_parallel => opc = "bbb_running" /\ opc' = "bbb_merge"
       /\ bbb_match' # bbb_match => opc = "bbb_merge" /\ opc' = "final"
       /\ final_leads' # final_leads => opc = "final" /\ opc' = "done"
       /\ opc = "failed" => UNCHANGED <<stage1Files, stage2Files>>]_vars

\* a run went through every step and wrote every file
C14_Witness ==
    /\ opc = "done"
    /\ google_search # <<>> /\ google_filter # <<>> /\ bbb_parallel # <<>>
    /\ bbb_match # <<>> /\ final_leads # <<>>

\* every record of the per-ZIP files has its identity in `merged`
HoldsEveryPerZipRecord(merged, files) ==
    \A z \in DOMAIN files : \A k \in 1..Len(files[z]) :
        \E m \in 1..Len(merged) : Key(merged[m]) = Key(files[z][k])

\* C15: an orchestrator interrupted while it waits for the Stage-1 workers
\* goes on to the merge and to nothing else: its next step writes a
\* google_search.json that holds every record of the per-ZIP files.
C15_InterruptProceedsToMerge ==
    [][(opc = "interrupted" /\ opc' # opc) =>
          /\ opc' = "filter"
          /\ HoldsEveryPerZipRecord(google_search', by_zip)]_vars

\* the orchestrator was interrupted in its wait, its workers have ended, the
\* per-ZIP files hold records and no merged dataset was written
C15_Witness ==
    /\ runs = 1 /\ opc = "interrupted" /\ AllExited
    /\ \E z \in DOMAIN by_zip : by_zip[z] # <<>>
    /\ google_search = <<>>
    /\ ~HoldsEveryPerZipRecord(google_search, by_zip)

----------------------------------------------------------------------------
(* Claims about the workers' ZIP lists *)

\* the ZIP list worker p was given in GGL_ZIP_LIST
ZipListOf(p) == SeqToSet(ParseZipList(procs[p].zip_list_env))

\* how many times worker p searched ZIP z
TimesSearched(p, z) ==
    Cardinality({k \in 1..Len(procs[p].searched) : procs[p].searched[k] = z})

\* the lists of two workers share no ZIP, every candidate ZIP is in a list,
\* and a worker searches (and so writes the file of) ZIPs of its own list only
OwnZipsOnly ==
    /\ \A p, q \in DOMAIN procs : p # q => ZipListOf(p) \cap ZipListOf(q) = {}
    /\ UNION {ZipListOf(p) : p \in DOMAIN procs} = SeqToSet(candidate_zips)
    /\ \A p \in DOMAIN procs : SeqToSet(procs[p].searched) \subseteq ZipListOf(p)

SearchedAtMostOnce ==
    \A z \in SeqToSet(candidate_zips) :
        Cardinality({p \in DOMAIN procs : TimesSearched(p, z) > 0}) <= 1
        /\ \A p \in DOMAIN procs : TimesSearched(p, z) <= 1

SearchedExactlyOnce ==
    \A z \in SeqToSet(candidate_zips) :
        \E p \in DOMAIN procs :
            /\ TimesSearched(p, z) = 1
            /\ \A q \in DOMAIN procs \ {p} : TimesSearched(q, z) = 0

JoinedSteps == {"filter", "bbb", "bbb_running", "bbb_merge", "final", "done"}

WorkersJoined == opc \in JoinedSteps

\* C16 as claimed: the workers' lists are disjoint and cover the candidates, a
\* worker searches ZIPs of its own list only, and once the workers have been
\* waited for every candidate ZIP was searched by exactly one worker, once.
C16_Claimed ==
    opc \in {"waiting", "interrupted", "failed"} \cup JoinedSteps =>
        /\ OwnZipsOnly
        /\ SearchedAtMostOnce
        /\ WorkersJoined => SearchedExactlyOnce

\* C16, amended: the same, with "exactly once" for the runs in which every
\* worker went through its whole list, and "at most once" otherwise.
C16_OneWorkerPerZip ==
    opc \in {"waiting", "interrupted", "failed"} \cup JoinedSteps =>
        /\ OwnZipsOnly
        /\ SearchedAtMostOnce
        /\ (\A p \in DOMAIN procs : RanToEnd(procs[p])) => SearchedExactlyOnce

\* two workers went through their lists and each wrote the file of its ZIP
C16_Witness ==
    /\ WorkersJoined
    /\ Cardinality(DOMAIN procs) = 2
    /\ \A p \in DOMAIN procs : RanToEnd(procs[p]) /\ procs[p].processed # <<>>
    /\ \A z \in SeqToSet(candidate_zips) : z \in DOMAIN by_zip /\ by_zip[z] # <<>>

----------------------------------------------------------------------------
(* Claims about the Stage-2 worker threads, under SpecBBB *)

\* the entries that the running bbb_bus_parallel.py put on its queue (the
\* three files it reads are written only after it has ended)
Enqueued ==
    Enqueue(google_filter, load_existing_business_names(<<bbb_match, bbb_parallel, final_leads>>), {})

Waiting(entry) == Len(SelectSeq(task_queue, LAMBDA e : e = entry))

RecordsOf(entry) == Len(SelectSeq(results, LAMBDA r : Key(r) = Key(entry)))

\* a worker took the entry and is through with it
Handled(entry) == Waiting(entry) = 0 /\ entry \notin inflight

Complete(entry) == entry.BusinessName # "" /\ entry.Location # <<>>

\* C17 (as claimed): while the threads of Stage 2 run, every enqueued
\* candidate is in the queue once, or held by one worker, or handled; a
\* candidate has no record before a worker is through with it and, when its
\* name and location are non-empty, exactly one record afterwards; once the
\* script has ended, the output file holds the results.
C17_EveryCandidateOneRecord ==
    /\ opc = "bbb_running" =>
         \A i \in 1..Len(Enqueued) :
            LET entry == Enqueued[i]
            IN  /\ Waiting(entry) + (IF entry \in inflight THEN 1 ELSE 0) <= 1
                /\ ~Handled(entry) => RecordsOf(entry) = 0
                /\ Handled(entry) /\ Complete(entry) => RecordsOf(entry) = 1
                /\ Handled(entry) /\ ~Complete(entry) => RecordsOf(entry) = 0
    /\ opc = "bbb_merge" /\ results # <<>> => bbb_parallel = results

\* a worker took a complete candidate, its lookup raised and so did the
\* creation of the new browser: the candidate is with no worker and has no
\* record
C17_Witness ==
    /\ opc = "bbb_running"
    /\ \E entry \in threads.lost :
         /\ Complete(entry)
         /\ \E i \in 1..Len(Enqueued) : Enqueued[i] = entry
         /\ Handled(entry)
         /\ RecordsOf(entry) = 0

NamesIn(data) == {data[i].BusinessName : i \in 1..Len(data)}

StartOfStage2 == opc = "bbb" /\ opc' = "bbb_running"

\* C18: when bbb_bus_parallel.py fills its queue, no queued candidate has an
\* empty or "N/A" BusinessName or a name found in bbb_match.json,
\* bbb_match_parallel.json or final_leads.json, and no two queued candidates
\* share a name; and over the runs, no business name is looked up more than
\* once.
C18_NoRepeatedLookup ==
    [][/\ StartOfStage2 =>
            /\ \A i \in 1..Len(task_queue') :
                  /\ task_queue'[i].BusinessName \notin {"", NA}
                  /\ task_queue'[i].BusinessName \notin
                        NamesIn(bbb_match) \cup NamesIn(bbb_parallel) \cup NamesIn(final_leads)
            /\ \A i, j \in 1..Len(task_queue') :
                  i # j => task_queue'[i].BusinessName # task_queue'[j].BusinessName
       /\ \A n \in DOMAIN hist'.looked_up : hist'.looked_up[n] <= 1]_vars

\* the second run's input repeats a name that the first run looked up and
\* matched, and a name under two ZIPs; a worker of the second run has looked
\* up another name
C18_Witness ==
    /\ runs = 2 /\ opc = "bbb_running"
    /\ "A" \in NamesIn(bbb_match) \cap NamesIn(final_leads)
    /\ Len(SelectSeq(google_filter, LAMBDA e : e.BusinessName = "A")) = 2
    /\ "A" \in DOMAIN hist.looked_up
    /\ hist.last # <<>>
    /\ hist.last.name = "B"

\* a lookup ended in this step, and how
LookupEnds == hist'.looked_up # hist.looked_up

TransientFailures == {"timeout", "raised", "no_driver"}

Unmatched(entry) ==
    [BusinessName |-> entry.BusinessName, Website |-> entry.Website,
     Industry |-> entry.Industry, Location |-> entry.Location,
     BBB_bus |-> NA, BBB_url |-> NA, BBB_phone |-> NA, BBB_address |-> NA]

RecoversFromFailure ==
    /\ hist'.sessions = hist.sessions + 1
    /\ \E entry \in inflight :
         /\ inflight' = inflight \ {entry}
         /\ results' = Append(results, Unmatched(entry))
    /\ task_queue' = task_queue
    /\ threads' = threads

\* C19 (as claimed): whenever a lookup ends in a time-out, a blocking
\* response or another exception, the worker has opened a new browser
\* session, the candidate is appended to the results with its four BBB
\* fields "N/A", the queue is as it was, and the thread is still running.
C19_FailedLookupRecreatesSession ==
    [][LookupEnds /\ hist'.last.outcome \in TransientFailures => RecoversFromFailure]_vars

\* a wait inside scrape_bbb_listings timed out: the candidate is recorded as
\* unmatched and no browser session was opened beyond those of the start
C19_Witness ==
    /\ opc = "bbb_running"
    /\ hist.last # <<>>
    /\ hist.last.outcome = "timeout"
    /\ results # <<>>
    /\ results[Len(results)].BusinessName = hist.last.name
    /\ results[Len(results)].BBB_url = NA
    /\ hist.sessions = threads.alive

----------------------------------------------------------------------------
(* Claims about unmatched candidates and the final lead list, under SpecBBB *)

NoUrl == {"", NA}

\* C20: a candidate whose lookup finds no organic result card is appended to
\* the results with BBB_url "N/A"; the merge of the Stage-2 output keeps
\* every record of bbb_match.json and of bbb_match_parallel.json, matched or
\* not; and from an empty final list on, no final lead has BBB_url "N/A" or
\* empty, and no unmatched record of bbb_match.json is a final lead.
C20_UnmatchedKeptRawNotFinal ==
    [][/\ LookupEnds /\ hist'.last.outcome = "none" =>
            \E entry \in inflight :
               /\ entry.BusinessName = hist'.last.name
               /\ results' = Append(results, Unmatched(entry))
       /\ opc = "bbb_merge" /\ opc' = "final" =>
            /\ IsPrefix(bbb_match, bbb_match')
            /\ \A i \in 1..Len(bbb_parallel) :
                  \E j \in 1..Len(bbb_match') : bbb_match'[j] = bbb_parallel[i]
       /\ \A j \in 1..Len(final_leads') :
            /\ final_leads'[j].BBB_url \notin NoUrl
            /\ \A i \in 1..Len(bbb_match') :
                  bbb_match'[i].BBB_url \in NoUrl =>
                     Key(final_leads'[j]) # Key(bbb_match'[i])]_vars

\* a run has ended with an unmatched candidate in bbb_match.json and a
\* matched one in the final list
C20_Witness ==
    /\ opc = "done"
    /\ final_leads # <<>>
    /\ \E i \in 1..Len(bbb_match) :
         /\ bbb_match[i].BBB_url = NA
         /\ bbb_match[i].BusinessName \notin NamesIn(final_leads)

----------------------------------------------------------------------------
(* Claims about the final filter, under SpecBBB *)

FinalStep == opc = "final" /\ opc' = "done"

UrlsIn(data) == {data[i].BBB_url : i \in 1..Len(data)}

NoDuplicateUrls(seq) ==
    \A i, j \in 1..Len(seq) : i # j => seq[i].BBB_url # seq[j].BBB_url

\* the positions of bbb_match.json that hold the first record of a matched
\* URL that the existing final list does not have
NewLeadPositions(data, existing_final) ==
    {i \in 1..Len(data) :
        /\ data[i].BBB_url \notin NoUrl
        /\ data[i].BBB_url \notin UrlsIn(existing_final)
        /\ \A j \in 1..(i - 1) : data[j].BBB_url # data[i].BBB_url}

\* C21: the final lead list never holds two records with one BBB_url; a run
\* of the final filter keeps the existing final leads first, in their order,
\* appends the matched records of bbb_match.json whose URL is new, in input
\* order, first occurrence only; and the filter run again on the same inputs
\* gives the same list.
C21_FinalListDedupedByUrl ==
    [][/\ NoDuplicateUrls(final_leads')
       /\ FinalStep =>
            /\ IsPrefix(final_leads, final_leads')
            /\ IsRestriction(SubSeq(final_leads', Len(final_leads) + 1, Len(final_leads')),
                             bbb_match, NewLeadPositions(bbb_match, final_leads))
            /\ filter_for_final_leads(bbb_match, final_leads') = final_leads']_vars

\* the second run's final filter has run: the list holds the lead of the
\* first run only, and the record that the second run matched to the same
\* URL is in bbb_match.json after it
C21_Witness ==
    /\ opc = "done" /\ runs = 2
    /\ Len(final_leads) = 1 /\ Len(bbb_match) = 2 /\ Len(bbb_parallel) = 1
    /\ bbb_match[1] = final_leads[1]
    /\ bbb_match[2] = bbb_parallel[1]
    /\ bbb_match[2].BBB_url = final_leads[1].BBB_url
    /\ bbb_match[2].BusinessName # final_leads[1].BusinessName

----------------------------------------------------------------------------
(* Claims about the merged Stage-2 dataset, under SpecBBB *)

Stage2MergeStep == opc = "bbb_merge" /\ opc' = "final"

\* C22 (as claimed): bbb_match.json never holds two records of one Stage-1
\* survivor (BusinessName and Location), and the Stage-2 merge of a run in
\* which no candidate was looked up leaves bbb_match.json as it was.
C22_NoDuplicateGrowth ==
    [][/\ NoDuplicateKeys(bbb_match')
       /\ Stage2MergeStep /\ results = <<>> => bbb_match' = bbb_match]_vars

\* the second run found every candidate in bbb_match.json already, looked up
\* nothing, and its merge appended the first run's records a second time
C22_Witness ==
    /\ opc = "final" /\ runs = 2
    /\ results = <<>>
    /\ bbb_parallel # <<>>
    /\ bbb_match = bbb_parallel \o bbb_parallel

----------------------------------------------------------------------------
(* Claims about the no-op runs *)

AllOutputs == <<by_zip, google_search, google_filter, bbb_parallel, bbb_match, final_leads>>

\* C23: a pipeline run whose request holds no valid ZIP goes from its start
\* to exit status 0 in one step, with no worker spawned and no output file
\* changed, and after that exit nothing happens but the start of another run,
\* which changes no file either.
C23_NoCandidatesExitsZero ==
    [][/\ opc = "start" /\ ValidCandidates(args) = {} =>
            /\ opc' = "exit0"
            /\ procs' = NoProcs
            /\ AllOutputs' = AllOutputs /\ tracker' = tracker
       /\ opc = "exit0" =>
            /\ opc' = "start"
            /\ procs' = NoProcs
            /\ AllOutputs' = AllOutputs /\ tracker' = tracker]_vars

\* a second run, asked for a range whose start lies above its end, has exited
\* with status 0 and left the first run's outputs as they were
C23_Witness ==
    /\ opc = "exit0" /\ runs = 2
    /\ args.start_zip > args.end_zip
    /\ procs = NoProcs
    /\ google_search # <<>>

\* last_zip_scraped + 1 if that is above the requested start, else the start
ResumePoint(pr) ==
    LET w == tracker[pr.state_abbr].last_zip_scraped
    IN  IF w = NoZip THEN pr.start_zip ELSE Max(pr.start_zip, w[1] + 1)

\* C24: a tracked scraper run whose effective start ZIP lies above the
\* requested end ends in its first step with exit status 0, having searched
\* and processed no ZIP, and leaves the tracker and every output file as they
\* were.
C24_PastEndIsNoOp ==
    [][\A p \in DOMAIN procs :
          /\ procs[p].pc = "start" /\ Tracked(procs[p])
          /\ ResumePoint(procs[p]) > procs[p].end_zip
          /\ p \in DOMAIN procs' /\ procs'[p] # procs[p]
          => /\ procs'[p].pc = "exited" /\ procs'[p].rc = 0
             /\ procs'[p].searched = <<>> /\ procs'[p].processed = <<>>
             /\ tracker' = tracker
             /\ AllOutputs' = AllOutputs]_vars

\* a tracked run asked for 30301..30302 when the watermark stood at 30302 or
\* above has ended
C24_Witness ==
    \E p \in DOMAIN procs :
        /\ Tracked(procs[p])
        /\ procs[p].start_zip = 30301 /\ procs[p].end_zip = 30302
        /\ procs[p].watermark0 # NoZip
        /\ procs[p].watermark0[1] >= 30302
        /\ procs[p].pc = "exited" /\ procs[p].rc = 0
        /\ procs[p].searched = <<>>
        /\ tracker["GA"].last_zip_scraped = procs[p].watermark0

----------------------------------------------------------------------------
(* Claims about the Stage-1 filter, under SpecFilter *)

FilterStep == opc = "filter" /\ opc' = "bbb"

NamedNoWebsite(data) ==
    {i \in 1..Len(data) : data[i].BusinessName # NA /\ data[i].Website = NA}

\* C25: google_filter.json is google_search.json restricted, in order, to the
\* records whose BusinessName is not "N/A" and whose Website is "N/A"; and
\* the filter applied to its own output gives that output.
C25_FilterIsSubsequence ==
    [][FilterStep =>
          /\ IsRestriction(google_filter', google_search, NamedNoWebsite(google_search))
          /\ filter_google_search_data(google_filter') = google_filter']_vars

\* the filter has run on a dataset with a record it keeps followed by an
\* unnamed record without a website
C25_Witness ==
    /\ opc = "bbb"
    /\ Len(google_search) >= 2
    /\ google_search[1].BusinessName = "A" /\ google_search[1].Website = NA
    /\ google_search[2].BusinessName = NA /\ google_search[2].Website = NA
    /\ google_filter = <<google_search[1]>>

----------------------------------------------------------------------------
(* Claims about the per-ZIP loop of the scraper, under SpecScraper *)

\* the ZIPs of a process's list that lie in the state's valid bands
ValidOfList(pr) ==
    {z \in SeqToSet(pr.iterable_zips) :
        pr.state_abbr = "GA" => (z \in 30000..31999 \/ z \in 39800..39999)}

\* the results page of a ZIP failed to load for process p in this step
LoadFailsNow(p) ==
    /\ p \in DOMAIN procs /\ p \in DOMAIN procs'
    /\ procs[p].pc = "loop"
    /\ procs'[p].load_failed # procs[p].load_failed

\* C26: in the step in which the results page of a ZIP fails to load, no
\* output file changes, the ZIP counts as processed, the worker stands at the
\* next ZIP of its list (or at its end) with exit status 0 and nothing caught;
\* and a worker that saw such a failure and went through its loop has
\* processed every valid ZIP of its list.
C26_LoadFailureIsLocal ==
    [][\A p \in DOMAIN procs' :
          /\ LoadFailsNow(p) =>
               LET pr == procs[p]
                   z  == pr.iterable_zips[pr.i]
               IN  /\ procs'[p].load_failed = pr.load_failed \cup {z}
                   /\ AllOutputs' = AllOutputs
                   /\ procs'[p].processed = Append(pr.processed, z)
                   /\ procs'[p].i = pr.i + 1
                   /\ procs'[p].pc = IF pr.i < Len(pr.iterable_zips) THEN "loop" ELSE "finally"
                   /\ procs'[p].rc = 0 /\ ~procs'[p].interrupted
          /\ procs'[p].load_failed # {} /\ RanToEnd(procs'[p]) =>
               SeqToSet(procs'[p].processed) = ValidOfList(procs'[p])]_vars

\* the page of 30301 did not load, the run went on to 30302 and 30303 and
\* ended with status 0; 30301 has no record
C26_Witness ==
    \E p \in DOMAIN procs :
        /\ procs[p].load_failed = {30301}
        /\ procs[p].processed = <<30301, 30302, 30303>>
        /\ RanToEnd(procs[p])
        /\ \A i \in 1..Len(google_search) : google_search[i].Location # Str(30301)
        /\ \E i \in 1..Len(google_search) : google_search[i].Location = Str(30303)

----------------------------------------------------------------------------
(* Claims about the scraper's duplicate test, under SpecDedup *)

\* the businesses that every results page shows
ShownEverywhere ==
    {n \in {"A", "B"} : \A feed \in pages : \E k \in 1..Len(feed) : feed[k].BusinessName = n}

\* the records written for a ZIP, in the output mode of the process
RecordsOfZip(files, all_results, output_by_zip, z) ==
    IF output_by_zip
    THEN (IF z \in DOMAIN files THEN SeqToSet(files[z]) ELSE {})
    ELSE {all_results[i] : i \in {k \in 1..Len(all_results) :
                                    all_results[k].Location = Str(z)}}

RecordsFor(pr, z) == RecordsOfZip(by_zip, google_search, pr.output_by_zip, z)

\* C27 (as claimed): a business found on the results page of a ZIP is passed
\* over only if a record with its name exists for that ZIP: once a process
\* has searched a ZIP whose page loaded, the output holds a record with that
\* ZIP for every business the page showed, whatever was recorded under other
\* ZIPs.
C27_DuplicateOnlyWithinZip ==
    \A p \in DOMAIN procs :
       \A z \in SeqToSet(procs[p].searched) \ procs[p].load_failed :
          \A n \in ShownEverywhere :
             \E r \in RecordsFor(procs[p], z) : r.BusinessName = n

\* a run searched 30301 and 30302, whose pages both showed "A": the output
\* holds ("A", 30301) and no record for 30302
C27_Witness ==
    \E p \in DOMAIN procs :
        /\ procs[p].searched = <<30301, 30302>>
        /\ procs[p].load_failed = {}
        /\ "A" \in ShownEverywhere
        /\ \E r \in RecordsFor(procs[p], 30301) : r.BusinessName = "A"
        /\ RecordsFor(procs[p], 30302) = {}

----------------------------------------------------------------------------
(* Claims about the per-ZIP files, under Spec *)

FileOf(files, z) == IF z \in DOMAIN files THEN files[z] ELSE <<>>

\* C28: no per-ZIP file ever disappears; after any step the former content
\* of a file <Z>.json is a prefix of its content, every record added has
\* Location "Z" and Industry "Roofing", and no two records of the file share
\* a BusinessName.
C28_PerZipFileAppendOnly ==
    [][/\ DOMAIN by_zip \subseteq DOMAIN by_zip'
       /\ \A z \in DOMAIN by_zip' :
             LET old == FileOf(by_zip, z)
                 new == by_zip'[z]
             IN  /\ IsPrefix(old, new)
                 /\ \A i \in (Len(old) + 1)..Len(new) :
                       new[i].Location = Str(z) /\ new[i].Industry = "Roofing"
                 /\ \A i, j \in 1..Len(new) :
                       i # j => new[i].BusinessName # new[j].BusinessName]_vars

\* a second run added a record to the file that the first run wrote for ZIP 9
C28_Witness ==
    /\ runs = 2
    /\ 9 \in DOMAIN by_zip
    /\ Len(by_zip[9]) = 2
    /\ \E p \in DOMAIN procs : procs[p].searched = <<9>>

----------------------------------------------------------------------------
(* Claims about the in-run watermark, under SpecScraper *)

\* process p is past line 370, where the candidate is set to one below the
\* effective start, and has not ended
SameRun(p) ==
    /\ p \in DOMAIN procs /\ p \in DOMAIN procs'
    /\ procs[p].pc \in {"loop", "finally"}

\* the watermark candidate follows the loop: it moves only in a step that
\* searched the ZIP and passed its write, it moves for a ZIP whose page did
\* not load and for one that gave no new record, and no record is written
\* for a ZIP once the candidate has moved to it
CandidateFollowsLoop(p) ==
    LET pr == procs[p]
        nx == procs'[p]
    IN  /\ nx.highest_processed_zip # pr.highest_processed_zip =>
              /\ pr.pc = "loop"
              /\ nx.highest_processed_zip = pr.iterable_zips[pr.i]
              /\ nx.searched = Append(pr.searched, pr.iterable_zips[pr.i])
        /\ nx.processed # pr.processed =>
              /\ nx.processed = Append(pr.processed, nx.highest_processed_zip)
              /\ nx.highest_processed_zip = pr.iterable_zips[pr.i]
        /\ LoadFailsNow(p) => nx.highest_processed_zip = pr.iterable_zips[pr.i]
        /\ \A z \in SeqToSet(pr.processed) :
              RecordsOfZip(by_zip', google_search', pr.output_by_zip, z) = RecordsFor(pr, z)

\* the finally block of a tracked run that processed a ZIP at or above its
\* effective start persists the candidate
CandidatePersisted(p) ==
    LET pr == procs[p]
    IN  /\ pr.pc = "finally" /\ procs'[p].pc = "exited"
        /\ Tracked(pr)
        /\ pr.processed # <<>>
        /\ pr.highest_processed_zip >= pr.actual_start_zip
        => tracker'[pr.state_abbr].last_zip_scraped = Zip(pr.highest_processed_zip)

NoRevisit(pr) ==
    pr.watermark0 # NoZip => \A z \in SeqToSet(pr.searched) : z > pr.watermark0[1]

----------------------------------------------------------------------------
(* Claims about a worker cut short, under Spec *)

\* the valid ZIPs of a worker's list that it never processed
Unprocessed(pr) ==
    {z \in SeqToSet(ParseZipList(pr.zip_list_env)) :
        /\ pr.state_abbr = "GA" => (z \in 30000..31999 \/ z \in 39800..39999)
        /\ z \notin SeqToSet(pr.processed)}

----------------------------------------------------------------------------
(* Claims about the timing of the workers, under SpecRace *)

\* every worker of the run went through its whole list and saw every page
UndisturbedWorkers ==
    \A p \in DOMAIN procs : RanToEnd(procs[p]) /\ procs[p].load_failed = {}

\* what the pages of the candidate ZIPs show, as identities
ShownRecords ==
    {<<n, Str(candidate_zips[i])>> : n \in ShownEverywhere, i \in 1..Len(candidate_zips)}

\* C31 (as claimed): with the same results page for every ZIP and empty
\* initial files, the merged dataset of a first pipeline run whose workers
\* all went through their lists does not depend on their timing: it holds
\* one record for each business shown and each candidate ZIP.
C31_MergeIndependentOfTiming ==
    runs = 1 /\ opc = "filter" /\ UndisturbedWorkers =>
        /\ {Key(google_search[i]) : i \in 1..Len(google_search)} = ShownRecords
        /\ NoDuplicateKeys(google_search)

\* the worker of ZIP 10 started after the worker of ZIP 9 had written its
\* file: the merged dataset holds "A" under 9 only
C31_Witness ==
    /\ runs = 1 /\ opc = "filter" /\ UndisturbedWorkers
    /\ candidate_zips = <<9, 10>>
    /\ Len(google_search) = 1
    /\ Key(google_search[1]) = <<"A", Str(9)>>
    /\ procs[1].searched = <<10>>
    /\ "A" \in procs[1].scraped_business_names

----------------------------------------------------------------------------
(* Claims about the termination of Stage 2, under SpecBBBLive *)

\* C32 (as claimed): every Stage-2 run that has started its threads gets
\* past task_queue.join(), ends its threads and reaches the merge of its
\* output, whatever the lookups and the browser start-ups do.
C32_Stage2Terminates ==
    (opc = "bbb_running") ~> (opc = "bbb_merge")

\* the queue is empty and no thread holds an entry, but an entry taken by a
\* thread that ended was never marked done: join() waits for ever
C32_Witness ==
    /\ opc = "bbb_running"
    /\ task_queue = <<>> /\ inflight = {}
    /\ threads.lost # {}
    /\ threads.alive > 0

----------------------------------------------------------------------------
(* One call of scrape_google_maps_listings, googlemaps_search.py lines      *)
(* 59-244, from the result-loading loop on: the call is process 0, the page *)
(* holds the cards of `feed`, and the clock counts whole seconds since      *)
(* started_at.  Every driver call returns or raises.                        *)

MaxCards == 2        \* most cards the page of one search holds

\* line 145: the seconds the result-loading loop may take
scroll_budget == 180

\* seconds one pass of the loop takes: the sleep of line 117 alone, or the
\* sleep and the wait of lines 121-123 running out
ScrollTicks == {1, 6}

\* values of the max_listings parameter: below the cards of a page, the
\* default of line 59 and the value passed at line 404
ScrollCaps == {1, 50, max_listings}

ScrollFeeds == UNION {[1..n -> Listings] : n \in 0..MaxCards}

\* lines 64-66, 110-113: the call when the loop is entered
ScrollCall(feed, cap, names) ==
    [pc |-> "scroll", feed |-> feed, max_listings |-> cap,
     scraped_business_names |-> names, businesses_data |-> <<>>,
     elapsed |-> 0, exit |-> "none"]

\* line 145 measuring the pass instead of the loop
ScrollElapsedRestarted(elapsed, dt) == dt

\* line 145: time.time() - started_at after a pass that took dt seconds
ScrollElapsed(elapsed, dt) == elapsed + dt

InitScroll ==
    /\ args = Request("TX", 9, 10)
    /\ nworkers = workers
    /\ opc = "scrapers"
    /\ candidate_zips = <<>> /\ zip_slices = <<>>
    /\ task_queue = <<>> /\ inflight = {} /\ results = <<>>
    /\ threads = NoThreads /\ hist = NoHistory
    /\ EmptyOutputs
    /\ tracker = FreshTracker
    /\ runs = 1
    /\ pages = Feeds
    /\ \E feed \in ScrollFeeds, cap \in ScrollCaps, names \in {{}, {"A"}} :
           procs = [idx \in {0} |-> ScrollCall(feed, cap, names)]

\* lines 115-147: one pass of the while loop: scroll, sleep, look for the feed
\* container (lines 119-129), for the end-of-list banner (lines 132-136), and
\* at the clock (lines 145-147)
ScrollIteration ==
    /\ 0 \in DOMAIN procs /\ procs[0].pc = "scroll"
    /\ \E dt \in ScrollTicks, seen \in {"feed_gone", "end_banner", "nothing"} :
         LET now == ScrollElapsed(procs[0].elapsed, dt) IN
         procs' = [procs EXCEPT ![0] =
             IF seen = "feed_gone"
             THEN [@ EXCEPT !.pc = "parse", !.exit = "no_feed", !.elapsed = now]
             ELSE IF seen = "end_banner"
             THEN [@ EXCEPT !.pc = "parse", !.exit = "end_of_list", !.elapsed = now]
             ELSE IF now > scroll_budget
             THEN [@ EXCEPT !.pc = "parse", !.exit = "budget", !.elapsed = now]
             ELSE [@ EXCEPT !.elapsed = now]]
    /\ UNCHANGED <<orchVars, tracker, stage1Files, stage2Files, bbbVars, runs, pages>>

\* lines 148-150: a driver call of the loop raised: the empty list is returned
ScrollRaises ==
    /\ 0 \in DOMAIN procs /\ procs[0].pc = "scroll"
    /\ procs' = [procs EXCEPT ![0].pc = "returned", ![0].exit = "error"]
    /\ UNCHANGED <<orchVars, tracker, stage1Files, stage2Files, bbbVars, runs, pages>>

\* lines 155-244: the page source is parsed: without the feed container the
\* empty list is returned (lines 159-162), else the cards are read up to
\* max_listings records
ScrollParse ==
    /\ 0 \in DOMAIN procs /\ procs[0].pc = "parse"
    /\ \E div_feed \in BOOLEAN :
         LET pr  == procs[0]
             out == ScrapeFeed(pr.feed, <<>>, pr.scraped_business_names, pr.max_listings)
         IN  procs' = [procs EXCEPT ![0] =
                 IF div_feed
                 THEN [pr EXCEPT !.pc = "returned", !.businesses_data = out[1],
                                 !.scraped_business_names = out[2]]
                 ELSE [pr EXCEPT !.pc = "returned"]]
    /\ UNCHANGED <<orchVars, tracker, stage1Files, stage2Files, bbbVars, runs, pages>>

NextScroll == ScrollIteration \/ ScrollRaises \/ ScrollParse

\* the process runs: a pass of the loop or the parse that can be taken is taken
SpecScroll == InitScroll /\ [][NextScroll]_vars /\ WF_vars(NextScroll)

----------------------------------------------------------------------------
(* Claims about one ZIP's search, under SpecScroll *)

Scrolling == 0 \in DOMAIN procs /\ procs[0].pc = "scroll"

Returned == 0 \in DOMAIN procs /\ procs[0].pc = "returned"

\* C33: the search of one ZIP always returns; the result-loading loop is left
\* at the end-of-list banner, when the feed container is gone, or once more
\* than scroll_budget seconds have passed, so it never starts a pass after
\* the budget is used up; and the call returns at most max_listings records.
C33_ZipSearchTerminates ==
    /\ Scrolling ~> Returned
    /\ [](Scrolling => procs[0].elapsed <= scroll_budget)
    /\ [](Returned => Len(procs[0].businesses_data) <= procs[0].max_listings)

\* the loop ran out of its budget without banner or missing container, and
\* the page held more new named cards than max_listings: the cap cut the list
C33_Witness ==
    /\ Returned
    /\ procs[0].exit = "budget" /\ procs[0].elapsed > scroll_budget
    /\ procs[0].max_listings = 1
    /\ Len(procs[0].businesses_data) = 1
    /\ Len(procs[0].feed) = 2
    /\ procs[0].feed[1].BusinessName = "A" /\ procs[0].feed[2].BusinessName = "B"
    /\ procs[0].scraped_business_names = {"A"}

====
